---- MODULE Spec2Model ----
(***************************************************************************)
(* A model of the audio proxy (src/audio-proxy/src): the lock-free SPSC    *)
(* sample ring (ring_buffer.rs), the speaker and microphone workers, the   *)
(* control dispatcher and the run flag (main.rs, ipc.rs).                  *)
(*                                                                         *)
(* SpecRing interleaves one producer calling AudioRingBuffer::write and    *)
(* one consumer calling AudioRingBuffer::read at the level of the single   *)
(* index loads, slot accesses and index stores.  SpecSwap runs the speaker *)
(* render worker against the dispatcher and the interrupt handler,         *)
(* SpecSpeaker the whole speaker path, SpecProxy the proxy with the mic    *)
(* path configured.  SpecRecovery, SpecPaths, SpecOverflow, SpecMute,      *)
(* SpecControl and SpecSessions run parts of the proxy with the history    *)
(* their properties need.  SpecResolve, SpecStream, SpecChannels and       *)
(* SpecResample take find_device_by_id, one stream (audio_stream.rs),      *)
(* convert_channels and resample alone.                                    *)
(***************************************************************************)
EXTENDS Integers, Sequences, FiniteSets, TLC

(***************************************************************************)
(* Bounds of the model.                                                    *)
(***************************************************************************)
\* the capacity asked of AudioRingBuffer::new
RequestedCapacity == 3
\* the longest slice handed to one write call
MaxWriteLen == 3
\* the longest destination handed to one read call
MaxReadLen == 3
\* the number of samples the producer offers in one behaviour
MaxSamples == 6

(***************************************************************************)
(* Helpers.                                                                *)
(***************************************************************************)
Min(a, b) == IF a <= b THEN a ELSE b

IsPrefix(s, t) == Len(s) <= Len(t) /\ \A j \in 1..Len(s) : s[j] = t[j]

\* usize `&`
RECURSIVE BitAnd(_, _)
BitAnd(a, b) ==
    IF a = 0 \/ b = 0 THEN 0
    ELSE (a % 2) * (b % 2) + 2 * BitAnd(a \div 2, b \div 2)

\* usize::next_power_of_two: the smallest power of two >= n (1 for n = 0)
RECURSIVE PowerOfTwoFrom(_, _)
PowerOfTwoFrom(p, n) == IF p >= n THEN p ELSE PowerOfTwoFrom(2 * p, n)

NextPowerOfTwoNoRound(n) == IF n = 0 THEN 1 ELSE n

NextPowerOfTwo(n) == PowerOfTwoFrom(1, n)

(***************************************************************************)
(* AudioRingBuffer: the pure parts.                                        *)
(***************************************************************************)
\* self.capacity, as AudioRingBuffer::new stores it
RoundedCapacity == NextPowerOfTwo(RequestedCapacity)

\* capacity(): one slot is always kept empty
Capacity == RoundedCapacity - 1

Slots == 0..(RoundedCapacity - 1)

\* `x & (self.capacity - 1)`: the slot index of position x
SlotIndex(x) == BitAnd(x, RoundedCapacity - 1)

NewPosNoMask(pos, n) == pos + n

\* `(pos + n) & (self.capacity - 1)`: the index published after n elements
NewPos(pos, n) == BitAnd(pos + n, RoundedCapacity - 1)

WriteAvailableNoReserve(w, r) ==
    IF w >= r THEN RoundedCapacity - (w - r) - 1 ELSE r - w

\* write's `available`: the free space, one slot reserved
WriteAvailable(w, r) ==
    IF w >= r THEN RoundedCapacity - (w - r) - 1 ELSE r - w - 1

ReadAvailableShort(w, r) ==
    IF w >= r THEN w - r ELSE RoundedCapacity - (r - w) - 1

\* read's `available`: the buffered samples
ReadAvailable(w, r) ==
    IF w >= r THEN w - r ELSE RoundedCapacity - (r - w)

\* len() computed from two index values
RingLen(w, r) ==
    IF w >= r THEN w - r ELSE RoundedCapacity - (r - w)

VARIABLES
    buffer,      \* self.buffer: slot -> sample
    write_pos,   \* self.write_pos
    read_pos,    \* self.read_pos
    p,           \* the producer inside write: its position and locals
    c,           \* the consumer inside read: its position and locals
    offered,     \* history: the number of samples handed to write so far
    accepted,    \* history: the samples write has published, in order
    readOut,     \* history: the samples read has returned, in order
    lastW        \* history: the last completed write call

ringVars == <<buffer, write_pos, read_pos, p, c, offered, accepted, readOut, lastW>>

\* the samples slice of the producer's current call
SamplesOf(n, first) == [j \in 1..n |-> first + j - 1]

\* every sample handed to write so far, in call order
AllInputs == [j \in 1..offered |-> j]

PIdle == [pc |-> "idle", n |-> 0, first |-> 0, w |-> 0, r |-> 0, to_write |-> 0,
          i |-> 0, ret |-> 0, len0 |-> 0, full0 |-> FALSE, empty0 |-> FALSE,
          alone |-> FALSE]

CIdle == [pc |-> "idle", out |-> <<>>, w |-> 0, r |-> 0, to_read |-> 0, i |-> 0,
          ret |-> 0, len0 |-> 0, oldest |-> <<>>, after |-> <<>>, interposed |-> FALSE]

\* a completed write call: its input, the position it started at, whether the
\* ring was empty when it was called, its result, and whether no read call ran
\* between its call and now
WriteRecord(q, ret) ==
    [n |-> q.n, first |-> q.first, pos |-> q.w, empty |-> q.empty0, ret |-> ret,
     alone |-> q.alone]

NoWrite == [n |-> 0, first |-> 0, pos |-> 0, empty |-> FALSE, ret |-> 0, alone |-> FALSE]

\* AudioRingBuffer::new
InitRing ==
    /\ buffer = [s \in Slots |-> 0]
    /\ write_pos = 0
    /\ read_pos = 0
    /\ p = PIdle
    /\ c = CIdle
    /\ offered = 0
    /\ accepted = <<>>
    /\ readOut = <<>>
    /\ lastW = NoWrite

\* the buffered samples, oldest first, as the indices stand
Buffered == [j \in 1..RingLen(write_pos, read_pos) |-> buffer[SlotIndex(read_pos + j - 1)]]

BufferedSlots == {SlotIndex(read_pos + j - 1) : j \in 1..RingLen(write_pos, read_pos)}

(***************************************************************************)
(* AudioRingBuffer::write, one step per load, slot store and index store.  *)
(***************************************************************************)
\* the producer thread calls write(samples) with a slice of n fresh samples
\* (the workers call it with `&temp_buffer[..samples_read]`, samples_read > 0)
WriteCall ==
    /\ p.pc \in {"idle", "done"}
    /\ \E n \in 1..MaxWriteLen :
        /\ offered + n <= MaxSamples
        /\ p' = [PIdle EXCEPT !.pc = "load_w", !.n = n, !.first = offered + 1,
                              !.empty0 = (write_pos = read_pos),
                              !.alone = (c.pc \in {"idle", "done"})]
        /\ offered' = offered + n
    /\ c' = [c EXCEPT !.interposed = (c.pc # "idle")]
    /\ UNCHANGED <<buffer, write_pos, read_pos, accepted, readOut, lastW>>

\* let write_pos = self.write_pos.load(Acquire)
WriteLoadWritePos ==
    /\ p.pc = "load_w"
    /\ p' = [p EXCEPT !.pc = "load_r", !.w = write_pos]
    /\ UNCHANGED <<buffer, write_pos, read_pos, c, offered, accepted, readOut, lastW>>

\* let read_pos = self.read_pos.load(Acquire); available; to_write; early return
WriteLoadReadPos ==
    /\ p.pc = "load_r"
    /\ LET to_write == Min(p.n, WriteAvailable(p.w, read_pos))
           q == [p EXCEPT !.r = read_pos, !.to_write = to_write,
                          !.len0 = RingLen(write_pos, read_pos),
                          !.full0 = (SlotIndex(write_pos + 1) = read_pos)]
       IN IF to_write = 0
          THEN /\ p' = [q EXCEPT !.pc = "done", !.ret = 0, !.r = 0, !.to_write = 0]
               /\ lastW' = WriteRecord(q, 0)
          ELSE /\ p' = [q EXCEPT !.pc = "store", !.i = 0]
               /\ UNCHANGED lastW
    /\ UNCHANGED <<buffer, write_pos, read_pos, c, offered, accepted, readOut>>

\* *buffer_ptr.add((write_pos + i) & (capacity - 1)) = samples[i]
WriteStoreSlot ==
    /\ p.pc = "store"
    /\ buffer' = [buffer EXCEPT ![SlotIndex(p.w + p.i)] = SamplesOf(p.n, p.first)[p.i + 1]]
    /\ p' = [p EXCEPT !.i = p.i + 1,
                      !.pc = IF p.i + 1 < p.to_write THEN "store" ELSE "publish"]
    /\ UNCHANGED <<write_pos, read_pos, c, offered, accepted, readOut, lastW>>

\* self.write_pos.store(new_write_pos, Release); to_write
WritePublish ==
    /\ p.pc = "publish"
    /\ write_pos' = NewPos(p.w, p.to_write)
    /\ p' = [p EXCEPT !.pc = "done", !.ret = p.to_write, !.r = 0, !.to_write = 0, !.i = 0]
    /\ accepted' = accepted \o SubSeq(SamplesOf(p.n, p.first), 1, p.to_write)
    /\ lastW' = WriteRecord(p, p.to_write)
    /\ UNCHANGED <<buffer, read_pos, c, offered, readOut>>

ProducerStep ==
    \/ WriteLoadWritePos
    \/ WriteLoadReadPos
    \/ WriteStoreSlot
    \/ WritePublish

(***************************************************************************)
(* AudioRingBuffer::read, one step per load, slot load and index store.    *)
(***************************************************************************)
\* the consumer thread calls read(out) with a zeroed destination of n elements
\* (the workers call it with their non-empty temp_buffer)
ReadCall ==
    /\ c.pc \in {"idle", "done"}
    /\ \E n \in 1..MaxReadLen :
        c' = [CIdle EXCEPT !.pc = "load_w", !.out = [j \in 1..n |-> 0],
                           !.after = IF p.pc \in {"idle", "done"} THEN <<lastW>> ELSE <<>>]
    /\ p' = [p EXCEPT !.alone = FALSE]
    /\ lastW' = [lastW EXCEPT !.alone = FALSE]
    /\ UNCHANGED <<buffer, write_pos, read_pos, offered, accepted, readOut>>

\* let write_pos = self.write_pos.load(Acquire)
ReadLoadWritePos ==
    /\ c.pc = "load_w"
    /\ c' = [c EXCEPT !.pc = "load_r", !.w = write_pos,
                      !.len0 = RingLen(write_pos, read_pos),
                      !.oldest = Buffered]
    /\ UNCHANGED <<buffer, write_pos, read_pos, p, offered, accepted, readOut, lastW>>

\* let read_pos = self.read_pos.load(Acquire); available; to_read; early return
ReadLoadReadPos ==
    /\ c.pc = "load_r"
    /\ LET to_read == Min(Len(c.out), ReadAvailable(c.w, read_pos))
           q == [c EXCEPT !.r = read_pos, !.to_read = to_read]
       IN IF to_read = 0
          THEN c' = [q EXCEPT !.pc = "done", !.ret = 0, !.w = 0, !.to_read = 0]
          ELSE c' = [q EXCEPT !.pc = "copy", !.i = 0]
    /\ UNCHANGED <<buffer, write_pos, read_pos, p, offered, accepted, readOut, lastW>>

\* samples[i] = self.buffer[(read_pos + i) & (capacity - 1)]
ReadLoadSlot ==
    /\ c.pc = "copy"
    /\ c' = [c EXCEPT !.out[c.i + 1] = buffer[SlotIndex(c.r + c.i)],
                      !.i = c.i + 1,
                      !.pc = IF c.i + 1 < c.to_read THEN "copy" ELSE "publish"]
    /\ UNCHANGED <<buffer, write_pos, read_pos, p, offered, accepted, readOut, lastW>>

\* self.read_pos.store(new_read_pos, Release); to_read
ReadPublish ==
    /\ c.pc = "publish"
    /\ read_pos' = NewPos(c.r, c.to_read)
    /\ c' = [c EXCEPT !.pc = "done", !.ret = c.to_read, !.w = 0, !.to_read = 0, !.i = 0]
    /\ readOut' = readOut \o SubSeq(c.out, 1, c.to_read)
    /\ UNCHANGED <<buffer, write_pos, p, offered, accepted, lastW>>

ConsumerStep ==
    \/ ReadLoadWritePos
    \/ ReadLoadReadPos
    \/ ReadLoadSlot
    \/ ReadPublish

(***************************************************************************)
(* The engine (main.rs): the shared control variables, the control         *)
(* dispatcher (run_ipc_server, handle_ipc_command, IpcServer), the         *)
(* interrupt handler, run_proxy's main thread and the four audio workers.  *)
(* The dispatcher takes one step per pipe call and per command handled, a  *)
(* worker one step per loop iteration.  A call into the host audio API or  *)
(* the pipe succeeds or fails as the host decides.                         *)
(***************************************************************************)
\* the host calls that fail in one behaviour of the whole proxy
MaxFaults == 1
\* the host calls that fail in one behaviour of the speaker path alone
RecoveryFaults == 5
\* the samples the capture device gives in one behaviour, where they are
\* numbered
SampleIds == 8
\* the samples one capture read returns at most
MaxBlock == 2

\* Max consecutive errors before giving up on stream recovery
MAX_RECOVERY_ATTEMPTS == 5

\* args.speaker_out, args.speaker_in, args.mic_in, args.mic_out
SpeakerOut == "speakers"
SpeakerIn == "loopback"
MicIn == "microphone"
MicOut == "cable"

\* the device ids a client sends
DeviceIds == {"speakers", "headset"}

VARIABLES
    running,          \* run_proxy: running (the run flag)
    output_id,        \* run_proxy: current_output_id (the speaker render target)
    mic_configured,   \* run_proxy: mic_state.is_some()
    mic_input_id,     \* MicState::input_id (the mic capture target)
    mic_enabled,      \* MicState::enabled
    spk_ring,         \* run_proxy: speaker_buffer
    mic_ring,         \* MicState::buffer
    ipc,              \* run_ipc_server and its IpcServer
    main,             \* run_proxy's thread, from "Wait for shutdown signal" on
    sc,               \* run_speaker_capture_loop
    sr,               \* run_speaker_render_loop
    mc,               \* run_mic_capture_loop
    mr,               \* run_mic_render_loop
    faults,           \* the failed host calls so far
    supplied,         \* history: the device ids SetOutput has stored
    delivered,        \* history: the endpoints the speaker render worker wrote to
    ack,              \* history: the SetOutput whose effect is being followed
    budget,           \* the host calls that may fail in this behaviour
    hist,             \* history: what the workers' last iterations did
    call              \* a part taken alone: a call of a function without
                      \* shared state (its arguments, and its result once
                      \* it has returned), or one stream

controlVars == <<running, output_id, mic_configured, mic_input_id, mic_enabled>>

engineVars == <<controlVars, spk_ring, mic_ring, ipc, main, sc, sr, mc, mr, faults,
                supplied, delivered, ack, budget, hist>>

\* what the ring and the engine leave alone
NoCall == [fn |-> "none"]

vars == <<ringVars, engineVars, call>>

\* AudioRingBuffer::new as the engine holds it
EmptyRing == [buffer |-> [s \in Slots |-> 0], write_pos |-> 0, read_pos |-> 0]

\* The engine holds a ring up to what write, read and len cannot tell apart:
\* the slot indices rotated so that read_pos is 0, the slots outside
\* [read_pos, write_pos) cleared.
Rotated(ring) ==
    LET len == RingLen(ring.write_pos, ring.read_pos)
    IN [buffer |-> [s \in Slots |-> IF s < len
                                    THEN ring.buffer[SlotIndex(ring.read_pos + s)]
                                    ELSE 0],
        write_pos |-> len,
        read_pos |-> 0]

\* AudioRingBuffer::write as one step: the ring after it and the count returned
RingWrite(ring, samples) ==
    LET to_write == Min(Len(samples), WriteAvailable(ring.write_pos, ring.read_pos))
    IN [ring |-> Rotated([ring EXCEPT
                    !.buffer = [s \in Slots |->
                        IF \E i \in 0..(to_write - 1) : SlotIndex(ring.write_pos + i) = s
                        THEN samples[1 + CHOOSE i \in 0..(to_write - 1) :
                                            SlotIndex(ring.write_pos + i) = s]
                        ELSE ring.buffer[s]],
                    !.write_pos = NewPos(ring.write_pos, to_write)]),
        count |-> to_write]

\* AudioRingBuffer::read as one step: the ring after it and the samples copied
RingRead(ring, len) ==
    LET to_read == Min(len, ReadAvailable(ring.write_pos, ring.read_pos))
    IN [ring |-> Rotated([ring EXCEPT !.read_pos = NewPos(ring.read_pos, to_read)]),
        out |-> [j \in 1..to_read |-> ring.buffer[SlotIndex(ring.read_pos + j - 1)]]]

\* the samples a ring of the engine holds, oldest first
Held(ring) ==
    [j \in 1..RingLen(ring.write_pos, ring.read_pos) |->
        ring.buffer[SlotIndex(ring.read_pos + j - 1)]]

\* the workers' temp_buffer holds more than the ring does
TempLen == RoundedCapacity

\* what a host call may do: fail while the behaviour's failures last
Outcomes == IF faults < budget THEN {TRUE, FALSE} ELSE {TRUE}

Fault(ok) == faults' = IF ok THEN faults ELSE faults + 1

\* the outcomes of a host call, when the step makes it
Calls(made) == IF made /\ faults < budget THEN BOOLEAN ELSE {TRUE}

\* a step in which k host calls fail
Faults(k) ==
    /\ faults + k <= budget
    /\ faults' = faults + k

\* a RenderStream or CaptureStream: the id it was created with, and `started`
Session(dev, started) == [dev |-> dev, started |-> started]

NoSession == [dev |-> "", started |-> FALSE]

None == "None"

\* history of one worker's last iteration: the call it made (op: "open" before
\* the loop, "read", "write" of a block from the ring, "silence"), whether the
\* call succeeded,
\* the block read or written, the samples the ring took or gave, and what the
\* error arm did (recover: "gave_up", "ok", "failed")
NoOp == [op |-> "none", ok |-> TRUE, block |-> <<>>, count |-> 0, recover |-> "none"]

\* the history kept; where the samples are numbered, `fed` is the number of the
\* last sample the capture device has given and `lost` holds the numbers of the
\* samples the ring did not take; `muted` says that an EnableMic{false} has
\* been acknowledged and no EnableMic{true} handled since, `inflight` that the
\* mic render worker had found the mic enabled, in the iteration it is in,
\* before the last EnableMic{false} stored; where the sessions of the speaker
\* render worker are tracked, `open` is the number of its sessions that were
\* started and not stopped since, `leaked` the number of those a destructor
\* has released after its stop failed; `retarget` is "pending" from a
\* SetMicInput handled while the mic is disabled until a capture iteration ends
\* with the mic enabled, and "done" after that iteration
HistOn == [on |-> TRUE, numbered |-> FALSE, fed |-> 0, lost |-> {},
           sc |-> NoOp, sr |-> NoOp, mr |-> NoOp,
           muted |-> FALSE, inflight |-> FALSE, retarget |-> "none",
           tracked |-> FALSE, open |-> 0, leaked |-> 0]

\* no history kept
HistOff == [on |-> FALSE]

(***************************************************************************)
(* ipc.rs: IpcCommand, IpcResponse, IpcServer.                             *)
(***************************************************************************)
IpcCommand ==
    {[tag |-> "SetOutput", device_id |-> d, enabled |-> FALSE] : d \in DeviceIds}
    \cup {[tag |-> "GetStatus", device_id |-> "", enabled |-> FALSE]}
    \cup {[tag |-> "Stop", device_id |-> "", enabled |-> FALSE]}
    \cup {[tag |-> "SetMicInput", device_id |-> d, enabled |-> FALSE] : d \in DeviceIds}
    \cup {[tag |-> "EnableMic", device_id |-> "", enabled |-> e] : e \in BOOLEAN}

NoCommand == [tag |-> "none", device_id |-> "", enabled |-> FALSE]

\* IpcResponse::success
ResponseSuccess(message) ==
    [success |-> TRUE, message |-> message, running |-> None, output_device |-> None,
     mic_enabled |-> None, mic_input_device |-> None]

\* IpcResponse::error
ResponseError(message) ==
    [success |-> FALSE, message |-> message, running |-> None, output_device |-> None,
     mic_enabled |-> None, mic_input_device |-> None]

\* IpcResponse::status
ResponseStatus(is_running, output_device) ==
    [success |-> TRUE, message |-> "Status retrieved", running |-> is_running,
     output_device |-> output_device, mic_enabled |-> None, mic_input_device |-> None]

\* IpcResponse::status_full
ResponseStatusFull(is_running, output_device, mic_is_enabled, mic_input) ==
    [success |-> TRUE, message |-> "Status retrieved", running |-> is_running,
     output_device |-> output_device, mic_enabled |-> mic_is_enabled,
     mic_input_device |-> mic_input]

NoResponse == ResponseError("none")

\* the tags of IpcCommand
Tags == {"SetOutput", "GetStatus", "Stop", "SetMicInput", "EnableMic"}

\* IpcServer::new, and run_ipc_server before its loop; `client` is the
\* commands the clients of this behaviour send
IpcInit(client) == [pc |-> "top", connected |-> FALSE, command |-> NoCommand,
                    response |-> NoResponse, client |-> client]

\* while running.load(SeqCst)
IpcTop ==
    /\ ipc.pc = "top"
    /\ ipc' = [ipc EXCEPT !.pc = IF running THEN "accept" ELSE "returned"]
    /\ UNCHANGED <<controlVars, spk_ring, mic_ring, main, sc, sr, mc, mr, faults,
                   supplied, delivered, ack, budget, hist>>

\* accept_with_timeout: ConnectNamedPipe, when no client is connected.  The call
\* returns when a client connects (or had connected: error 535), or with
\* another error, which gives Ok(None).
IpcConnect ==
    /\ ipc.pc = "accept"
    /\ \/ /\ ~ipc.connected
          /\ \E ok \in Outcomes :
               /\ Fault(ok)
               /\ ipc' = IF ok THEN [ipc EXCEPT !.pc = "read", !.connected = TRUE]
                               ELSE [ipc EXCEPT !.pc = "top"]
       \/ /\ ipc.connected
          /\ ipc' = [ipc EXCEPT !.pc = "read"]
          /\ UNCHANGED faults
    /\ UNCHANGED <<controlVars, spk_ring, mic_ring, main, sc, sr, mc, mr,
                   supplied, delivered, ack, budget, hist>>

\* IpcServer::disconnect
Disconnected(server) == [server EXCEPT !.connected = FALSE]

\* accept_with_timeout: ReadFile and serde_json::from_slice.  A failed or empty
\* read disconnects and gives Ok(None); a message that does not parse gives Err
\* (run_ipc_server logs it and sleeps); a command gives Ok(Some(command)).
IpcRead ==
    /\ ipc.pc = "read"
    /\ \/ \E ok \in Outcomes \ {TRUE} :
               /\ Fault(ok)
               /\ ipc' = [Disconnected(ipc) EXCEPT !.pc = "top"]
       \/ /\ ipc' = [ipc EXCEPT !.pc = "top"]
          /\ UNCHANGED faults
       \/ \E command \in {m \in IpcCommand : m.tag \in ipc.client} :
               /\ ipc' = [ipc EXCEPT !.pc = "handle", !.command = command]
               /\ UNCHANGED faults
    /\ UNCHANGED <<controlVars, spk_ring, mic_ring, main, sc, sr, mc, mr,
                   supplied, delivered, ack, budget, hist>>

(***************************************************************************)
(* handle_ipc_command: one operator per command.  Each gives the shared    *)
(* variables and the response after the command.                           *)
(***************************************************************************)
Reply(response) == ipc' = [ipc EXCEPT !.pc = "send", !.response = response]

\* a SetOutput handled while an acknowledged one is still to be read by the
\* render worker
Superseding(device_id) ==
    IF ack.phase = 1 /\ device_id # ack.d
    THEN [ack EXCEPT !.later = TRUE]
    ELSE ack

HandleSetOutputValidated(device_id) ==
    /\ IF device_id \in {SpeakerOut} \cup supplied
       THEN /\ output_id' = device_id
            /\ Reply(ResponseSuccess("Output device updated"))
       ELSE /\ UNCHANGED output_id
            /\ Reply(ResponseError("Device not found"))
    /\ supplied' = supplied \cup {device_id}
    /\ ack' = Superseding(device_id)
    /\ UNCHANGED <<running, mic_configured, mic_input_id, mic_enabled, budget, hist>>

\* IpcCommand::SetOutput { device_id }
HandleSetOutput(device_id) ==
    /\ output_id' = device_id
    /\ supplied' = supplied \cup {device_id}
    /\ ack' = Superseding(device_id)
    /\ Reply(ResponseSuccess("Output device updated"))
    /\ UNCHANGED <<running, mic_configured, mic_input_id, mic_enabled, budget, hist>>

HandleGetStatusReportsOpenEndpoint ==
    /\ Reply(IF mic_configured
             THEN ResponseStatusFull(running, sr.session.dev, mic_enabled, mic_input_id)
             ELSE ResponseStatus(running, sr.session.dev))
    /\ UNCHANGED <<controlVars, supplied, ack, budget, hist>>

\* IpcCommand::GetStatus
HandleGetStatus ==
    /\ Reply(IF mic_configured
             THEN ResponseStatusFull(running, output_id, mic_enabled, mic_input_id)
             ELSE ResponseStatus(running, output_id))
    /\ UNCHANGED <<controlVars, supplied, ack, budget, hist>>

\* IpcCommand::Stop
HandleStop ==
    /\ running' = FALSE
    /\ Reply(ResponseSuccess("Stopping proxy"))
    /\ UNCHANGED <<output_id, mic_configured, mic_input_id, mic_enabled, supplied, ack,
            budget, hist>>

\* the history after SetMicInput has stored
Retargeting ==
    IF hist.on /\ mic_configured /\ ~mic_enabled
    THEN [hist EXCEPT !.retarget = "pending"]
    ELSE hist

HandleSetMicInputUnguarded(device_id) ==
    /\ mic_input_id' = device_id
    /\ Reply(ResponseSuccess("Mic input device updated"))
    /\ hist' = Retargeting
    /\ UNCHANGED <<running, output_id, mic_configured, mic_enabled, supplied, ack,
            budget>>

\* IpcCommand::SetMicInput { device_id }
HandleSetMicInput(device_id) ==
    /\ IF mic_configured
       THEN /\ mic_input_id' = device_id
            /\ Reply(ResponseSuccess("Mic input device updated"))
       ELSE /\ UNCHANGED mic_input_id
            /\ Reply(ResponseError("Mic proxy not configured"))
    /\ hist' = Retargeting
    /\ UNCHANGED <<running, output_id, mic_configured, mic_enabled, supplied, ack,
            budget>>

\* the history after EnableMic{enabled} has stored
Muting(enabled) ==
    IF ~(hist.on /\ mic_configured) THEN hist
    ELSE IF enabled THEN [hist EXCEPT !.muted = FALSE, !.inflight = FALSE]
    ELSE [hist EXCEPT !.inflight = (mr.pc = "enabled")]

HandleEnableMicWrongFlag(enabled) ==
    /\ IF mic_configured
       THEN /\ running' = enabled
            /\ Reply(ResponseSuccess(IF enabled THEN "Mic proxy enabled"
                                                ELSE "Mic proxy disabled"))
       ELSE /\ UNCHANGED running
            /\ Reply(ResponseError("Mic proxy not configured"))
    /\ hist' = Muting(enabled)
    /\ UNCHANGED <<mic_enabled, output_id, mic_configured, mic_input_id, supplied, ack,
            budget>>

\* IpcCommand::EnableMic { enabled }
HandleEnableMic(enabled) ==
    /\ IF mic_configured
       THEN /\ mic_enabled' = enabled
            /\ Reply(ResponseSuccess(IF enabled THEN "Mic proxy enabled"
                                                ELSE "Mic proxy disabled"))
       ELSE /\ UNCHANGED mic_enabled
            /\ Reply(ResponseError("Mic proxy not configured"))
    /\ hist' = Muting(enabled)
    /\ UNCHANGED <<running, output_id, mic_configured, mic_input_id, supplied, ack,
            budget>>

\* run_ipc_server: Ok(Some(command)) => handle_ipc_command(command, ...)
IpcHandle ==
    /\ ipc.pc = "handle"
    /\ CASE ipc.command.tag = "SetOutput" -> HandleSetOutput(ipc.command.device_id)
         [] ipc.command.tag = "GetStatus" -> HandleGetStatus
         [] ipc.command.tag = "Stop" -> HandleStop
         [] ipc.command.tag = "SetMicInput" -> HandleSetMicInput(ipc.command.device_id)
         [] ipc.command.tag = "EnableMic" -> HandleEnableMic(ipc.command.enabled)
    /\ UNCHANGED <<spk_ring, mic_ring, main, sc, sr, mc, mr, faults, delivered>>

\* no SetOutput is being followed (phase 0: the next one acknowledged will be)
NoAck == [phase |-> 0, d |-> "", read |-> "", prev |-> "", later |-> FALSE]

\* the client has the reply to SetOutput{d}: follow the render worker from here,
\* unless an earlier SetOutput is still being followed
Acknowledged(command) ==
    IF command.tag = "SetOutput" /\ ack.phase = 0
    THEN [NoAck EXCEPT !.phase = 1, !.d = command.device_id]
    ELSE ack

\* the client has the reply to EnableMic{false}: the blocks the mic render
\* worker writes are followed from here
AcknowledgedMute(command) ==
    IF hist.on /\ mic_configured /\ command.tag = "EnableMic" /\ ~command.enabled
    THEN [hist EXCEPT !.muted = TRUE, !.mr = NoOp]
    ELSE hist

\* IpcServer::send_response: WriteFile, then disconnect (also when it failed)
IpcSend ==
    /\ ipc.pc = "send"
    /\ \E ok \in Outcomes :
         /\ Fault(ok)
         /\ ack' = IF ok THEN Acknowledged(ipc.command) ELSE ack
         /\ hist' = IF ok THEN AcknowledgedMute(ipc.command) ELSE hist
    /\ ipc' = [Disconnected(ipc) EXCEPT !.pc = "top", !.command = NoCommand,
                                        !.response = NoResponse]
    /\ UNCHANGED <<controlVars, spk_ring, mic_ring, main, sc, sr, mc, mr,
                   supplied, delivered, budget>>

IpcNext ==
    \/ IpcTop
    \/ IpcConnect
    \/ IpcRead
    \/ IpcHandle
    \/ IpcSend

\* ctrlc_handler: the interrupt handler stores false into the run flag
CtrlC ==
    /\ running' = FALSE
    /\ UNCHANGED <<output_id, mic_configured, mic_input_id, mic_enabled, spk_ring,
                   mic_ring, ipc, main, sc, sr, mc, mr, faults, supplied, delivered, ack,
                   budget, hist>>

(***************************************************************************)
(* run_proxy, from "Wait for shutdown signal" on.                          *)
(***************************************************************************)
\* a worker's thread has ended
Ended(worker) == worker.pc \in {"returned_ok", "returned_err", "no_com"}

\* while running_clone.load(SeqCst) { sleep }
MainWait ==
    /\ main = "wait"
    /\ ~running
    /\ main' = "join_capture"
    /\ UNCHANGED <<controlVars, spk_ring, mic_ring, ipc, sc, sr, mc, mr, faults,
                   supplied, delivered, ack, budget, hist>>

\* capture_handle.join()
MainJoinCapture ==
    /\ main = "join_capture"
    /\ Ended(sc)
    /\ main' = "join_render"
    /\ UNCHANGED <<controlVars, spk_ring, mic_ring, ipc, sc, sr, mc, mr, faults,
                   supplied, delivered, ack, budget, hist>>

\* render_handle.join(); if let Some(..) = mic_handles
MainJoinRender ==
    /\ main = "join_render"
    /\ Ended(sr)
    /\ main' = IF mic_configured THEN "join_mic_capture" ELSE "returned_ok"
    /\ UNCHANGED <<controlVars, spk_ring, mic_ring, ipc, sc, sr, mc, mr, faults,
                   supplied, delivered, ack, budget, hist>>

\* mic_capture.join()
MainJoinMicCapture ==
    /\ main = "join_mic_capture"
    /\ Ended(mc)
    /\ main' = "join_mic_render"
    /\ UNCHANGED <<controlVars, spk_ring, mic_ring, ipc, sc, sr, mc, mr, faults,
                   supplied, delivered, ack, budget, hist>>

\* mic_render.join(); Ok(())
MainJoinMicRender ==
    /\ main = "join_mic_render"
    /\ Ended(mr)
    /\ main' = "returned_ok"
    /\ UNCHANGED <<controlVars, spk_ring, mic_ring, ipc, sc, sr, mc, mr, faults,
                   supplied, delivered, ack, budget, hist>>

MainNext ==
    \/ MainWait
    \/ MainJoinCapture
    \/ MainJoinRender
    \/ MainJoinMicCapture
    \/ MainJoinMicRender

(***************************************************************************)
(* The audio workers.  Each is the closure run_proxy spawns and the loop   *)
(* function it calls; one step is one iteration of the loop.  A host call  *)
(* (CoInitializeEx, a stream's creation, start, stop, read or write) has   *)
(* the outcome the step is given.                                          *)
(***************************************************************************)
WorkerInit == [pc |-> "spawned", cur |-> "", session |-> NoSession, err |-> 0,
               swap |-> "none"]

\* the thread closure up to the loop: CoInitializeEx, then the loop
\* function's create_and_start_..(device_id)? and current_device_id
Started(w, device_id, com_ok, open_ok) ==
    IF ~com_ok THEN [w EXCEPT !.pc = "no_com"]
    ELSE IF ~open_ok THEN [w EXCEPT !.pc = "returned_err"]
    ELSE [w EXCEPT !.pc = "top", !.cur = device_id,
                   !.session = Session(device_id, TRUE)]

StartFailures(com_ok, open_ok) ==
    IF ~com_ok THEN 1 ELSE IF ~open_ok THEN 1 ELSE 0

\* after the loop: stream.stop()?; Ok(())
Stopped(w, stop_ok) ==
    IF stop_ok
    THEN [w EXCEPT !.pc = "returned_ok", !.session.started = FALSE, !.swap = "none"]
    ELSE [w EXCEPT !.pc = "returned_err", !.swap = "none"]

HotSwapKeepCurrent(w, new_device_id, stop_ok, open_ok, prev_ok) ==
    IF ~stop_ok
    THEN [w EXCEPT !.pc = "returned_err", !.swap = "stop_failed"]
    ELSE IF open_ok
    THEN [w EXCEPT !.session = Session(new_device_id, TRUE),
                   !.err = 0, !.swap = "switched"]
    ELSE IF prev_ok
    THEN [w EXCEPT !.session = Session(w.cur, TRUE), !.swap = "fellback"]
    ELSE [w EXCEPT !.pc = "returned_err", !.session.started = FALSE,
                   !.swap = "both_failed"]

\* the hot-swap block of run_speaker_render_loop and of run_mic_capture_loop,
\* entered when new_device_id != current_device_id:
\* stream.stop()?; match create_and_start_..(&new_device_id) { Ok => ..,
\* Err => stream = create_and_start_..(&current_device_id).context(..)? }
HotSwap(w, new_device_id, stop_ok, open_ok, prev_ok) ==
    IF ~stop_ok
    THEN [w EXCEPT !.pc = "returned_err", !.swap = "stop_failed"]
    ELSE IF open_ok
    THEN [w EXCEPT !.session = Session(new_device_id, TRUE), !.cur = new_device_id,
                   !.err = 0, !.swap = "switched"]
    ELSE IF prev_ok
    THEN [w EXCEPT !.session = Session(w.cur, TRUE), !.swap = "fellback"]
    ELSE [w EXCEPT !.pc = "returned_err", !.session.started = FALSE,
                   !.swap = "both_failed"]

SwapFailures(stop_ok, open_ok, prev_ok) ==
    IF ~stop_ok THEN 1 ELSE IF open_ok THEN 0 ELSE IF prev_ok THEN 1 ELSE 2

SwapCheckedOnce(w, target, stop_ok, open_ok, prev_ok) ==
    IF target # w.cur /\ w.swap # "fellback"
    THEN HotSwap(w, target, stop_ok, open_ok, prev_ok)
    ELSE [w EXCEPT !.swap = "none"]

\* the top of an iteration: the target is read and compared with
\* current_device_id
SwapChecked(w, target, stop_ok, open_ok, prev_ok) ==
    IF target # w.cur
    THEN HotSwap(w, target, stop_ok, open_ok, prev_ok)
    ELSE [w EXCEPT !.swap = "none"]

SwapCheckFailures(w, target, stop_ok, open_ok, prev_ok) ==
    IF target # w.cur THEN SwapFailures(stop_ok, open_ok, prev_ok) ELSE 0

RecoveredOneEarly(w, recover_ok) ==
    IF w.err + 1 >= MAX_RECOVERY_ATTEMPTS - 1
    THEN [w EXCEPT !.pc = "returned_err", !.err = w.err + 1]
    ELSE IF recover_ok
    THEN [w EXCEPT !.err = w.err + 1, !.session = Session(w.cur, TRUE)]
    ELSE [w EXCEPT !.err = w.err + 1]

\* the error arm of a loop: error_count += 1; give up at
\* MAX_RECOVERY_ATTEMPTS; else sleep and create_and_start_..(current) again
Recovered(w, recover_ok) ==
    IF w.err + 1 >= MAX_RECOVERY_ATTEMPTS
    THEN [w EXCEPT !.pc = "returned_err", !.err = w.err + 1]
    ELSE IF recover_ok
    THEN [w EXCEPT !.err = w.err + 1, !.session = Session(w.cur, TRUE)]
    ELSE [w EXCEPT !.err = w.err + 1]

\* the error arm goes on to its create_and_start_..
Recovering(w, ok) == ~ok /\ w.err + 1 < MAX_RECOVERY_ATTEMPTS

\* the error arm returns the error: the session the worker holds is dropped
GaveUp(w, ok) == ~ok /\ w.err + 1 >= MAX_RECOVERY_ATTEMPTS

ReplacedForgotten(w, ok, recover_ok) == FALSE

\* the error arm's `render = new_render` (`capture = new_capture`): the session
\* held until now is dropped
Replaced(w, ok, recover_ok) == Recovering(w, ok) /\ recover_ok

\* the sessions are tracked in this behaviour
Tracked == hist.on /\ hist.tracked

\* the speaker workers' last operations are recorded in this behaviour (where
\* the sessions are tracked, they are not)
Recording == hist.on /\ ~hist.tracked

\* impl Drop: `let _ = self.stop()` on a session that is started; the result
\* of its stop_stream is looked at only where the sessions are tracked
Drops(dropped) == Calls(Tracked /\ dropped)

\* the history h after a step that stopped `stopped` sessions, started
\* `started` sessions, and dropped a started session if `dropped`, the
\* destructor's stop giving drop_ok
SessionsAfter(h, stopped, started, dropped, drop_ok) ==
    IF h.on /\ h.tracked
    THEN [h EXCEPT !.open = h.open - stopped + started
                             - (IF dropped /\ drop_ok THEN 1 ELSE 0),
                   !.leaked = h.leaked + (IF dropped /\ ~drop_ok THEN 1 ELSE 0)]
    ELSE h

\* the sessions the hot-swap block stops and starts
SwapStops(w, target, stop_ok) == IF target # w.cur /\ stop_ok THEN 1 ELSE 0

SwapStarts(w, target, stop_ok, open_ok, prev_ok) ==
    IF target # w.cur /\ stop_ok /\ (open_ok \/ prev_ok) THEN 1 ELSE 0

RecoverFailures(w, recover_ok) ==
    IF w.err + 1 >= MAX_RECOVERY_ATTEMPTS THEN 1 ELSE IF recover_ok THEN 1 ELSE 2

RenderBlockCountsSilence(w, samples_read, write_ok, recover_ok) ==
    IF write_ok
    THEN IF samples_read > 0 THEN [w EXCEPT !.err = 0] ELSE w
    ELSE Recovered(w, recover_ok)

\* a render loop after buffer.read returned samples_read: the block is
\* written, or silence when there is none (its result dropped)
RenderBlock(w, samples_read, write_ok, recover_ok) ==
    IF samples_read > 0
    THEN IF write_ok THEN [w EXCEPT !.err = 0] ELSE Recovered(w, recover_ok)
    ELSE w

RenderFailures(w, samples_read, write_ok, recover_ok) ==
    IF write_ok THEN 0
    ELSE IF samples_read > 0 THEN RecoverFailures(w, recover_ok)
    ELSE 1

\* what capture.read gives: Err, or Ok(samples_read)
CaptureResults ==
    {[ok |-> FALSE, samples_read |-> 0]}
    \cup {[ok |-> TRUE, samples_read |-> n] : n \in 0..MaxBlock}

\* what capture.read gives now: numbered samples run out after SampleIds
Readable ==
    {result \in CaptureResults :
        (hist.on /\ hist.numbered) => hist.fed + result.samples_read <= SampleIds}

\* the samples of a captured block: all 1, or numbered on from hist.fed
Block(samples_read) ==
    [i \in 1..samples_read |-> IF hist.on /\ hist.numbered THEN hist.fed + i ELSE 1]

\* DEFAULT_SAMPLE_RATE and the channel count render.format() falls back to
DEFAULT_SAMPLE_RATE == 48000
DEFAULT_CHANNELS == 2

\* 1ms of silence: vec![0.0f32; (rate / 1000) as usize * ch]
Silence(rate, ch) == [i \in 1..((rate \div 1000) * ch) |-> 0]

\* what the error arm does after a call that gave `ok`
ErrorArm(w, ok, recover_ok) ==
    IF ok THEN "none"
    ELSE IF w.err + 1 >= MAX_RECOVERY_ATTEMPTS THEN "gave_up"
    ELSE IF recover_ok THEN "ok"
    ELSE "failed"

\* history of a capture iteration that read `result` into the ring `ring`
CaptureOp(w, ring, result, recover_ok) ==
    [op |-> "read", ok |-> result.ok,
     block |-> IF result.ok THEN Block(result.samples_read) ELSE <<>>,
     count |-> IF result.ok /\ result.samples_read > 0
               THEN RingWrite(ring, Block(result.samples_read)).count
               ELSE 0,
     recover |-> ErrorArm(w, result.ok, recover_ok)]

\* the numbers of the samples dropped so far, after the capture iteration h
Lost(h) ==
    IF hist.numbered
    THEN hist.lost \cup {h.block[i] : i \in (h.count + 1)..Len(h.block)}
    ELSE hist.lost

\* history of a render iteration that was given `out` by the ring
RenderOp(w, out, write_ok, recover_ok) ==
    [op |-> IF Len(out) > 0 THEN "write" ELSE "silence",
     ok |-> write_ok,
     block |-> IF Len(out) > 0 THEN out
               ELSE Silence(DEFAULT_SAMPLE_RATE, DEFAULT_CHANNELS),
     count |-> Len(out),
     recover |-> ErrorArm(w, write_ok \/ Len(out) = 0, recover_ok)]

CaptureBlockKeepsCount(w, result, recover_ok) ==
    IF ~result.ok THEN Recovered(w, recover_ok)
    ELSE w

\* a capture loop after capture.read: Ok(n) if n > 0 => error_count = 0 and
\* buffer.write; Ok(_) => sleep; Err => the error arm
CaptureBlock(w, result, recover_ok) ==
    IF ~result.ok THEN Recovered(w, recover_ok)
    ELSE IF result.samples_read > 0 THEN [w EXCEPT !.err = 0]
    ELSE w

CaptureFailures(w, result, recover_ok) ==
    IF ~result.ok THEN RecoverFailures(w, recover_ok) ELSE 0

\* the ring after the capture loop's buffer.write(&temp_buffer[..samples_read])
Captured(ring, result) ==
    IF result.ok /\ result.samples_read > 0
    THEN RingWrite(ring, Block(result.samples_read)).ring
    ELSE ring

(***************************************************************************)
(* run_speaker_capture_loop and its thread.                                *)
(***************************************************************************)
ScSpawn ==
    /\ sc.pc = "spawned"
    /\ \E com_ok \in Calls(TRUE) : \E open_ok \in Calls(com_ok) :
         /\ Faults(StartFailures(com_ok, open_ok))
         /\ sc' = Started(sc, SpeakerIn, com_ok, open_ok)
         /\ hist' = IF Recording /\ com_ok
                    THEN [hist EXCEPT !.sc = [NoOp EXCEPT !.op = "open", !.ok = open_ok]]
                    ELSE hist
    /\ UNCHANGED <<controlVars, spk_ring, mic_ring, ipc, main, sr, mc, mr,
                   supplied, delivered, ack, budget>>

ScIterationTearsDown ==
    /\ sc.pc = "top"
    /\ running
    /\ \E result \in Readable : \E recover_ok \in Calls(Recovering(sc, result.ok)) :
         /\ Faults(CaptureFailures(sc, result, recover_ok))
         /\ sc' = CaptureBlock(sc, result, recover_ok)
         /\ running' = (sc'.pc = "top")
         /\ spk_ring' = Captured(spk_ring, result)
         /\ hist' = IF Recording
                    THEN [hist EXCEPT
                            !.sc = CaptureOp(sc, spk_ring, result, recover_ok),
                            !.fed = IF hist.numbered
                                    THEN hist.fed + result.samples_read
                                    ELSE hist.fed,
                            !.lost = Lost(CaptureOp(sc, spk_ring, result, recover_ok))]
                    ELSE hist
    /\ UNCHANGED <<output_id, mic_configured, mic_input_id, mic_enabled, mic_ring,
                   ipc, main, sr, mc, mr, supplied, delivered, ack, budget>>

\* while running.load(SeqCst) { match capture.read(&mut temp_buffer) { .. } }
ScIteration ==
    /\ sc.pc = "top"
    /\ running
    /\ \E result \in Readable : \E recover_ok \in Calls(Recovering(sc, result.ok)) :
         /\ Faults(CaptureFailures(sc, result, recover_ok))
         /\ sc' = CaptureBlock(sc, result, recover_ok)
         /\ spk_ring' = Captured(spk_ring, result)
         /\ hist' = IF Recording
                    THEN [hist EXCEPT
                            !.sc = CaptureOp(sc, spk_ring, result, recover_ok),
                            !.fed = IF hist.numbered
                                    THEN hist.fed + result.samples_read
                                    ELSE hist.fed,
                            !.lost = Lost(CaptureOp(sc, spk_ring, result, recover_ok))]
                    ELSE hist
    /\ UNCHANGED <<controlVars, mic_ring, ipc, main, sr, mc, mr,
                   supplied, delivered, ack, budget>>

ScExit ==
    /\ sc.pc = "top"
    /\ ~running
    /\ \E stop_ok \in Calls(TRUE) :
         /\ Faults(IF stop_ok THEN 0 ELSE 1)
         /\ sc' = Stopped(sc, stop_ok)
    /\ UNCHANGED <<controlVars, spk_ring, mic_ring, ipc, main, sr, mc, mr,
                   supplied, delivered, ack, budget, hist>>

SpeakerCaptureNext ==
    \/ ScSpawn
    \/ ScIteration
    \/ ScExit

(***************************************************************************)
(* run_speaker_render_loop and its thread.                                 *)
(***************************************************************************)
\* the endpoints written to, after a write to the session of w
Delivered(w, write_ok) ==
    IF write_ok THEN delivered \cup {w.session.dev} ELSE delivered

\* CoInitializeEx; device_id = output_device_id.read(); the first session;
\* the pre-fill write of silence (its result dropped)
SrSpawn ==
    /\ sr.pc = "spawned"
    /\ \E com_ok \in Calls(TRUE) : \E open_ok \in Calls(com_ok) :
       \E write_ok \in Calls(com_ok /\ open_ok) :
         LET started == Started(sr, output_id, com_ok, open_ok)
             prefilled == started.pc = "top"
         IN /\ Faults(StartFailures(com_ok, open_ok)
                      + (IF prefilled /\ ~write_ok THEN 1 ELSE 0))
            /\ sr' = started
            /\ delivered' = IF prefilled THEN Delivered(started, write_ok)
                                         ELSE delivered
            /\ hist' = SessionsAfter(hist, 0, IF prefilled THEN 1 ELSE 0, FALSE, TRUE)
    /\ UNCHANGED <<controlVars, spk_ring, mic_ring, ipc, main, sc, mc, mr,
                   supplied, ack, budget>>

\* the followed SetOutput after an iteration of the render worker that read
\* `target` and left the worker as `after`
Followed(target, after) ==
    IF ack.phase = 1 /\ after.pc = "top"
    THEN [ack EXCEPT !.phase = 3, !.read = target, !.prev = sr.cur]
    ELSE IF ack.phase = 1 \/ ack.phase = 3 THEN NoAck
    ELSE ack

\* one iteration: the hot-swap check, buffer.read, then the write of the
\* block or of silence; a session that is replaced, or held when the function
\* returns, is dropped
SrIteration ==
    /\ sr.pc = "top"
    /\ running
    /\ \E stop_ok \in Calls(output_id # sr.cur) :
       \E open_ok \in Calls(output_id # sr.cur /\ stop_ok) :
       \E prev_ok \in Calls(~open_ok) :
       LET swapped == SwapChecked(sr, output_id, stop_ok, open_ok, prev_ok)
           res == RingRead(spk_ring, TempLen)
           samples_read == Len(res.out)
           streaming == swapped.pc = "top"
       IN
       \E write_ok \in Calls(streaming) :
       \E recover_ok \in Calls(Recovering(swapped, write_ok \/ samples_read = 0)) :
         LET after == IF streaming
                      THEN RenderBlock(swapped, samples_read, write_ok, recover_ok)
                      ELSE swapped
             wrote == write_ok \/ samples_read = 0
             recovered == streaming /\ Recovering(swapped, wrote) /\ recover_ok
             dropped == \/ swapped.swap = "stop_failed"
                        \/ streaming /\ GaveUp(swapped, wrote)
                        \/ streaming /\ Replaced(swapped, wrote, recover_ok)
         IN
         \E drop_ok \in Drops(dropped) :
            /\ Faults(SwapCheckFailures(sr, output_id, stop_ok, open_ok, prev_ok)
                      + (IF streaming
                         THEN RenderFailures(swapped, samples_read, write_ok, recover_ok)
                         ELSE 0)
                      + (IF drop_ok THEN 0 ELSE 1))
            /\ sr' = after
            /\ spk_ring' = IF streaming THEN res.ring ELSE spk_ring
            /\ delivered' = IF streaming THEN Delivered(swapped, write_ok)
                                         ELSE delivered
            /\ ack' = Followed(output_id, after)
            /\ hist' = SessionsAfter(
                         IF Recording /\ streaming
                         THEN [hist EXCEPT
                                 !.sr = RenderOp(swapped, res.out, write_ok, recover_ok)]
                         ELSE hist,
                         SwapStops(sr, output_id, stop_ok),
                         SwapStarts(sr, output_id, stop_ok, open_ok, prev_ok)
                            + (IF recovered THEN 1 ELSE 0),
                         dropped, drop_ok)
    /\ UNCHANGED <<controlVars, mic_ring, ipc, main, sc, mc, mr, supplied, budget>>

\* the loop's condition false: render.stop()?; Ok(()); the session is dropped
SrExit ==
    /\ sr.pc = "top"
    /\ ~running
    /\ \E stop_ok \in Calls(TRUE) : \E drop_ok \in Drops(~stop_ok) :
         /\ Faults((IF stop_ok THEN 0 ELSE 1) + (IF drop_ok THEN 0 ELSE 1))
         /\ sr' = Stopped(sr, stop_ok)
         /\ hist' = SessionsAfter(hist, IF stop_ok THEN 1 ELSE 0, 0, ~stop_ok, drop_ok)
    /\ ack' = IF ack.phase = 3 THEN NoAck ELSE ack
    /\ UNCHANGED <<controlVars, spk_ring, mic_ring, ipc, main, sc, mc, mr,
                   supplied, delivered, budget>>

SpeakerRenderNext ==
    \/ SrSpawn
    \/ SrIteration
    \/ SrExit

(***************************************************************************)
(* run_mic_capture_loop and its thread (spawned when the mic proxy is      *)
(* configured).                                                            *)
(***************************************************************************)
McSpawn ==
    /\ mc.pc = "spawned"
    /\ mic_configured
    /\ \E com_ok \in Calls(TRUE) : \E open_ok \in Calls(com_ok) :
         /\ Faults(StartFailures(com_ok, open_ok))
         /\ mc' = Started(mc, mic_input_id, com_ok, open_ok)
    /\ UNCHANGED <<controlVars, spk_ring, mic_ring, ipc, main, sc, sr, mr,
                   supplied, delivered, ack, budget, hist>>

McDisabledSwaps ==
    /\ mc.pc = "top"
    /\ running
    /\ ~mic_enabled
    /\ \E stop_ok \in Calls(mic_input_id # mc.cur) :
       \E open_ok \in Calls(mic_input_id # mc.cur /\ stop_ok) :
       \E prev_ok \in Calls(~open_ok) :
         /\ Faults(SwapCheckFailures(mc, mic_input_id, stop_ok, open_ok, prev_ok))
         /\ mc' = SwapChecked(mc, mic_input_id, stop_ok, open_ok, prev_ok)
    /\ UNCHANGED <<controlVars, spk_ring, mic_ring, ipc, main, sc, sr, mr,
                   supplied, delivered, ack, budget, hist>>

\* if !mic_enabled.load(SeqCst) { sleep(50 ms); continue; }
McDisabled ==
    /\ mc.pc = "top"
    /\ running
    /\ ~mic_enabled
    /\ UNCHANGED <<controlVars, spk_ring, mic_ring, ipc, main, sc, sr, mc, mr, faults,
                   supplied, delivered, ack, budget, hist>>

\* one enabled iteration: the hot-swap check, capture.read, buffer.write
McIteration ==
    /\ mc.pc = "top"
    /\ running
    /\ mic_enabled
    /\ \E stop_ok \in Calls(mic_input_id # mc.cur) :
       \E open_ok \in Calls(mic_input_id # mc.cur /\ stop_ok) :
       \E prev_ok \in Calls(~open_ok) :
       LET swapped == SwapChecked(mc, mic_input_id, stop_ok, open_ok, prev_ok)
           streaming == swapped.pc = "top"
       IN
       \E result \in CaptureResults :
       \E recover_ok \in Calls(Recovering(swapped, result.ok)) :
            /\ Faults(SwapCheckFailures(mc, mic_input_id, stop_ok, open_ok, prev_ok)
                      + (IF streaming
                         THEN CaptureFailures(swapped, result, recover_ok)
                         ELSE 0))
            /\ mc' = IF streaming THEN CaptureBlock(swapped, result, recover_ok)
                                  ELSE swapped
            /\ mic_ring' = IF streaming THEN Captured(mic_ring, result) ELSE mic_ring
    /\ UNCHANGED <<controlVars, spk_ring, ipc, main, sc, sr, mr,
                   supplied, delivered, ack, budget, hist>>

McExitAfterGate ==
    /\ mc.pc = "top"
    /\ ~running
    /\ mic_enabled
    /\ \E stop_ok \in Calls(TRUE) :
         /\ Faults(IF stop_ok THEN 0 ELSE 1)
         /\ mc' = Stopped(mc, stop_ok)
    /\ UNCHANGED <<controlVars, spk_ring, mic_ring, ipc, main, sc, sr, mr,
                   supplied, delivered, ack, budget, hist>>

\* the loop's condition false: capture.stop()?; Ok(())
McExit ==
    /\ mc.pc = "top"
    /\ ~running
    /\ \E stop_ok \in Calls(TRUE) :
         /\ Faults(IF stop_ok THEN 0 ELSE 1)
         /\ mc' = Stopped(mc, stop_ok)
    /\ UNCHANGED <<controlVars, spk_ring, mic_ring, ipc, main, sc, sr, mr,
                   supplied, delivered, ack, budget, hist>>

MicCaptureNext ==
    \/ McSpawn
    \/ McDisabled
    \/ McIteration
    \/ McExit

(***************************************************************************)
(* run_mic_render_loop and its thread.                                     *)
(***************************************************************************)
\* CoInitializeEx; the session on mic_output_id; the pre-fill write
MrSpawn ==
    /\ mr.pc = "spawned"
    /\ mic_configured
    /\ \E com_ok \in Calls(TRUE) : \E open_ok \in Calls(com_ok) :
       \E write_ok \in Calls(com_ok /\ open_ok) :
         LET started == Started(mr, MicOut, com_ok, open_ok)
         IN /\ Faults(StartFailures(com_ok, open_ok)
                      + (IF started.pc = "top" /\ ~write_ok THEN 1 ELSE 0))
            /\ mr' = started
    /\ UNCHANGED <<controlVars, spk_ring, mic_ring, ipc, main, sc, sr, mc,
                   supplied, delivered, ack, budget, hist>>

\* if !mic_enabled.load(SeqCst) { render.write(&silence); sleep(10 ms); continue; }
MrDisabled ==
    /\ mr.pc = "top"
    /\ running
    /\ ~mic_enabled
    /\ \E write_ok \in Calls(TRUE) :
         /\ Faults(IF write_ok THEN 0 ELSE 1)
         /\ hist' = IF hist.on
                    THEN [hist EXCEPT !.mr = RenderOp(mr, <<>>, write_ok, TRUE)]
                    ELSE hist
    /\ UNCHANGED <<controlVars, spk_ring, mic_ring, ipc, main, sc, sr, mc, mr,
                   supplied, delivered, ack, budget>>

\* one enabled iteration: buffer.read, then the write of the block or of silence
MrIteration ==
    /\ mr.pc = "top"
    /\ running
    /\ mic_enabled
    /\ LET res == RingRead(mic_ring, TempLen)
           samples_read == Len(res.out)
       IN
       \E write_ok \in Calls(TRUE) :
       \E recover_ok \in Calls(Recovering(mr, write_ok \/ samples_read = 0)) :
            /\ Faults(RenderFailures(mr, samples_read, write_ok, recover_ok))
            /\ mr' = RenderBlock(mr, samples_read, write_ok, recover_ok)
            /\ mic_ring' = res.ring
            /\ hist' = IF hist.on
                       THEN [hist EXCEPT
                               !.mr = RenderOp(mr, res.out, write_ok, recover_ok)]
                       ELSE hist
    /\ UNCHANGED <<controlVars, spk_ring, ipc, main, sc, sr, mc,
                   supplied, delivered, ack, budget>>

MrGateOpen ==
    /\ mr.pc = "top"
    /\ running
    /\ mr' = [mr EXCEPT !.pc = "enabled"]
    /\ UNCHANGED <<controlVars, spk_ring, mic_ring, ipc, main, sc, sr, mc, faults,
                   supplied, delivered, ack, budget, hist>>

\* The same iteration in two steps, for the commands that come between the
\* load of the flag and the write.  First `if !mic_enabled.load(SeqCst)` finds
\* the mic enabled:
MrGate ==
    /\ mr.pc = "top"
    /\ running
    /\ mic_enabled
    /\ mr' = [mr EXCEPT !.pc = "enabled"]
    /\ UNCHANGED <<controlVars, spk_ring, mic_ring, ipc, main, sc, sr, mc, faults,
                   supplied, delivered, ack, budget, hist>>

\* the worker after the body of an iteration that found the mic enabled
AtTop(w) == IF w.pc = "enabled" THEN [w EXCEPT !.pc = "top"] ELSE w

\* then buffer.read and the write of the block or of silence
MrBody ==
    /\ mr.pc = "enabled"
    /\ LET res == RingRead(mic_ring, TempLen)
           samples_read == Len(res.out)
       IN
       \E write_ok \in Calls(TRUE) :
       \E recover_ok \in Calls(Recovering(mr, write_ok \/ samples_read = 0)) :
            /\ Faults(RenderFailures(mr, samples_read, write_ok, recover_ok))
            /\ mr' = AtTop(RenderBlock(mr, samples_read, write_ok, recover_ok))
            /\ mic_ring' = res.ring
            /\ hist' = IF hist.on
                       THEN [hist EXCEPT
                               !.mr = RenderOp(mr, res.out, write_ok, recover_ok),
                               !.inflight = FALSE]
                       ELSE hist
    /\ UNCHANGED <<controlVars, spk_ring, ipc, main, sc, sr, mc,
                   supplied, delivered, ack, budget>>

MrExit ==
    /\ mr.pc = "top"
    /\ ~running
    /\ \E stop_ok \in Calls(TRUE) :
         /\ Faults(IF stop_ok THEN 0 ELSE 1)
         /\ mr' = Stopped(mr, stop_ok)
    /\ UNCHANGED <<controlVars, spk_ring, mic_ring, ipc, main, sc, sr, mc,
                   supplied, delivered, ack, budget, hist>>

MicRenderNext ==
    \/ MrSpawn
    \/ MrDisabled
    \/ MrIteration
    \/ MrExit

MicRenderStepsNext ==
    \/ MrSpawn
    \/ MrDisabled
    \/ MrGate
    \/ MrBody
    \/ MrExit

(***************************************************************************)
(* The specifications.                                                     *)
(***************************************************************************)
\* run_proxy up to the spawning of the threads
InitEngine(mic, following, client) ==
    /\ running = TRUE
    /\ output_id = SpeakerOut
    /\ mic_configured = mic
    /\ mic_input_id = MicIn
    /\ mic_enabled = TRUE
    /\ spk_ring = EmptyRing
    /\ mic_ring = EmptyRing
    /\ ipc = IpcInit(client)
    /\ main = "wait"
    /\ sc = WorkerInit
    /\ sr = WorkerInit
    /\ mc = WorkerInit
    /\ mr = WorkerInit
    /\ faults = 0
    /\ supplied = {}
    /\ delivered = {}
    /\ ack = IF following THEN NoAck ELSE [NoAck EXCEPT !.phase = 4]

\* the failures the host is allowed, and whether the history is kept
InitHost(failures, history, numbered) ==
    /\ budget = failures
    /\ hist = IF history THEN [HistOn EXCEPT !.numbered = numbered] ELSE HistOff

\* the ring alone, under one producer and one consumer
RingNext ==
    /\ \/ WriteCall
       \/ ProducerStep
       \/ ReadCall
       \/ ConsumerStep
    /\ UNCHANGED <<engineVars, call>>

Init ==
    /\ InitRing
    /\ call = NoCall
    /\ InitEngine(FALSE, FALSE, Tags)
    /\ InitHost(MaxFaults, FALSE, FALSE)

SpecRing == Init /\ [][RingNext]_vars

\* the proxy without the mic path (--mic-in / --mic-out not given)
SpeakerNext ==
    /\ \/ IpcNext
       \/ CtrlC
       \/ MainWait
       \/ MainJoinCapture
       \/ MainJoinRender
       \/ SpeakerCaptureNext
       \/ SpeakerRenderNext
    /\ UNCHANGED <<ringVars, call>>

SpecSpeaker == Init /\ [][SpeakerNext]_vars

\* the render worker and the commands that retarget it, the acknowledged
\* SetOutput followed
InitSwap ==
    /\ InitRing
    /\ call = NoCall
    /\ InitEngine(FALSE, TRUE, Tags)
    /\ InitHost(MaxFaults, FALSE, FALSE)

SwapNext ==
    /\ \/ IpcNext
       \/ CtrlC
       \/ SpeakerRenderNext
    /\ UNCHANGED <<ringVars, call>>

SpecSwap == InitSwap /\ [][SwapNext]_vars

\* the proxy with the mic path
InitMic ==
    /\ InitRing
    /\ call = NoCall
    /\ InitEngine(TRUE, FALSE, {"Stop", "EnableMic"})
    /\ InitHost(MaxFaults, FALSE, FALSE)

ProxyNext ==
    /\ \/ IpcNext
       \/ CtrlC
       \/ MainNext
       \/ SpeakerCaptureNext
       \/ SpeakerRenderNext
       \/ MicCaptureNext
       \/ MicRenderNext
    /\ UNCHANGED <<ringVars, call>>

SpecProxy == InitMic /\ [][ProxyNext]_vars

\* the speaker path alone, its devices failing more often, the history kept
InitRecovery ==
    /\ InitRing
    /\ call = NoCall
    /\ InitEngine(FALSE, FALSE, {})
    /\ InitHost(RecoveryFaults, TRUE, FALSE)

RecoveryNext ==
    /\ \/ CtrlC
       \/ SpeakerCaptureNext
       \/ SpeakerRenderNext
    /\ UNCHANGED <<ringVars, call>>

SpecRecovery == InitRecovery /\ [][RecoveryNext]_vars

\* the speaker path, the mic path's render worker and the dispatcher, the
\* devices failing more often
InitPaths ==
    /\ InitRing
    /\ call = NoCall
    /\ InitEngine(TRUE, FALSE, {"Stop", "EnableMic"})
    /\ InitHost(RecoveryFaults, FALSE, FALSE)

PathsNext ==
    /\ \/ IpcNext
       \/ CtrlC
       \/ SpeakerCaptureNext
       \/ SpeakerRenderNext
       \/ MicRenderNext
    /\ UNCHANGED <<ringVars, call>>

SpecPaths == InitPaths /\ [][PathsNext]_vars

\* the mic path and the commands that enable and disable it, the render
\* worker's load of the flag a step of its own
InitMute ==
    /\ InitRing
    /\ call = NoCall
    /\ InitEngine(TRUE, FALSE, {"EnableMic"})
    /\ InitHost(MaxFaults, TRUE, FALSE)

MuteNext ==
    /\ \/ IpcNext
       \/ CtrlC
       \/ MicCaptureNext
       \/ MicRenderStepsNext
    /\ UNCHANGED <<ringVars, call>>

SpecMute == InitMute /\ [][MuteNext]_vars

(***************************************************************************)
(* The mic workers with the load of the enable flag a step of its own, in  *)
(* the capture worker as in the render worker, for the commands that come  *)
(* between a worker's load of the flag and the rest of its iteration.      *)
(***************************************************************************)
McGateOpen ==
    /\ mc.pc = "top"
    /\ running
    /\ mc' = [mc EXCEPT !.pc = "enabled"]
    /\ UNCHANGED <<controlVars, spk_ring, mic_ring, ipc, main, sc, sr, mr, faults,
                   supplied, delivered, ack, budget, hist>>

\* `if !mic_enabled.load(SeqCst)` of run_mic_capture_loop finds the mic enabled
McGate ==
    /\ mc.pc = "top"
    /\ running
    /\ mic_enabled
    /\ mc' = [mc EXCEPT !.pc = "enabled"]
    /\ UNCHANGED <<controlVars, spk_ring, mic_ring, ipc, main, sc, sr, mr, faults,
                   supplied, delivered, ack, budget, hist>>

\* the history after a capture iteration that read `result`
Fed(result) ==
    IF hist.on /\ hist.numbered
    THEN [hist EXCEPT !.fed = hist.fed + result.samples_read]
    ELSE hist

\* the history `h` after a capture iteration's hot-swap check
Retargeted(h) ==
    IF ~h.on THEN h
    ELSE IF h.retarget = "pending" /\ mic_enabled THEN [h EXCEPT !.retarget = "done"]
    ELSE IF h.retarget = "done" THEN [h EXCEPT !.retarget = "none"]
    ELSE h

\* then the rest of the iteration: the target is read for the hot-swap check,
\* capture.read, buffer.write
McBody ==
    /\ mc.pc = "enabled"
    /\ \E stop_ok \in Calls(mic_input_id # mc.cur) :
       \E open_ok \in Calls(mic_input_id # mc.cur /\ stop_ok) :
       \E prev_ok \in Calls(~open_ok) :
       LET swapped == SwapChecked(AtTop(mc), mic_input_id, stop_ok, open_ok, prev_ok)
           streaming == swapped.pc = "top"
       IN
       \E result \in (IF streaming THEN Readable ELSE {[ok |-> TRUE, samples_read |-> 0]}) :
       \E recover_ok \in Calls(streaming /\ Recovering(swapped, result.ok)) :
            /\ Faults(SwapCheckFailures(mc, mic_input_id, stop_ok, open_ok, prev_ok)
                      + (IF streaming
                         THEN CaptureFailures(swapped, result, recover_ok)
                         ELSE 0))
            /\ mc' = IF streaming THEN CaptureBlock(swapped, result, recover_ok)
                                  ELSE swapped
            /\ mic_ring' = IF streaming THEN Captured(mic_ring, result) ELSE mic_ring
            /\ hist' = Retargeted(IF streaming THEN Fed(result) ELSE hist)
    /\ UNCHANGED <<controlVars, spk_ring, ipc, main, sc, sr, mr,
                   supplied, delivered, ack, budget>>

MicCaptureStepsNext ==
    \/ McSpawn
    \/ McDisabled
    \/ McGate
    \/ McBody
    \/ McExit

\* the mic path with the EnableMic command, the captured samples numbered
InitGate ==
    /\ InitRing
    /\ call = NoCall
    /\ InitEngine(TRUE, FALSE, {"EnableMic"})
    /\ InitHost(MaxFaults, TRUE, TRUE)

GateNext ==
    /\ \/ IpcNext
       \/ CtrlC
       \/ MicCaptureStepsNext
       \/ MicRenderStepsNext
    /\ UNCHANGED <<ringVars, call>>

SpecGate == InitGate /\ [][GateNext]_vars

\* the mic path with the EnableMic and SetMicInput commands
InitGateSwap ==
    /\ InitRing
    /\ call = NoCall
    /\ InitEngine(TRUE, FALSE, {"EnableMic", "SetMicInput"})
    /\ InitHost(MaxFaults, TRUE, FALSE)

SpecGateSwap == InitGateSwap /\ [][GateNext]_vars

\* the speaker path alone, the captured samples numbered
InitOverflow ==
    /\ InitRing
    /\ call = NoCall
    /\ InitEngine(FALSE, FALSE, {})
    /\ InitHost(MaxFaults, TRUE, TRUE)

SpecOverflow == InitOverflow /\ [][RecoveryNext]_vars

\* the speaker path and the SetOutput commands, the devices failing more
\* often, the sessions of the render worker tracked
InitSessions ==
    /\ InitRing
    /\ call = NoCall
    /\ InitEngine(FALSE, FALSE, {"SetOutput"})
    /\ budget = RecoveryFaults
    /\ hist = [HistOn EXCEPT !.tracked = TRUE]

SessionsNext ==
    /\ \/ IpcNext
       \/ CtrlC
       \/ SpeakerCaptureNext
       \/ SpeakerRenderNext
    /\ UNCHANGED <<ringVars, call>>

SpecSessions == InitSessions /\ [][SessionsNext]_vars

\* the dispatcher with every command, the mic path configured or not, and the
\* speaker render worker
InitControl ==
    /\ InitRing
    /\ call = NoCall
    /\ \E mic \in BOOLEAN : InitEngine(mic, FALSE, Tags)
    /\ InitHost(MaxFaults, FALSE, FALSE)

ControlNext ==
    /\ \/ IpcNext
       \/ CtrlC
       \/ SpeakerRenderNext
    /\ UNCHANGED <<ringVars, call>>

SpecControl == InitControl /\ [][ControlNext]_vars

(***************************************************************************)
(* The parts taken alone: the functions without shared state and the       *)
(* streams.  A specification of a function draws the arguments of a call,  *)
(* and its one action is the call; a specification of a stream calls its   *)
(* methods in any order.  The ring and the engine stay as they were        *)
(* constructed.                                                            *)
(***************************************************************************)
\* the proxy as constructed, nothing of it running
Constructed ==
    /\ InitRing
    /\ InitEngine(FALSE, FALSE, {})
    /\ InitHost(MaxFaults, FALSE, FALSE)

(***************************************************************************)
(* audio_stream.rs: find_device_by_id.  A string is a sequence of          *)
(* characters; a character is a letter in upper or lower case, one letter  *)
(* of ASCII ("a") and one outside it ("o_umlaut").                         *)
(***************************************************************************)
\* the longest device id asked for, and the longest friendly name
MaxName == 2
\* the most devices the host enumerates
MaxDevices == 2

Chars == [letter : {"a", "o_umlaut"}, upper : BOOLEAN]

IsAscii(ch) == ch.letter = "a"

\* the strings of up to n characters
Strings(n) == UNION {[1..k -> Chars] : k \in 0..n}

\* u8::to_ascii_lowercase on every byte: what eq_ignore_ascii_case compares
ToAsciiLowercase(str) ==
    [i \in 1..Len(str) |-> IF IsAscii(str[i]) THEN [str[i] EXCEPT !.upper = FALSE]
                                               ELSE str[i]]

\* str::to_lowercase
ToLowercase(str) == [i \in 1..Len(str) |-> [str[i] EXCEPT !.upper = FALSE]]

\* str::eq_ignore_ascii_case
EqIgnoreAsciiCase(a, b) == ToAsciiLowercase(a) = ToAsciiLowercase(b)

\* str::contains
Contains(hay, needle) ==
    \E k \in 0..(Len(hay) - Len(needle)) : SubSeq(hay, k + 1, k + Len(needle)) = needle

\* an item of DeviceCollection::into_iter that is an Err
FailedItem == [ok |-> FALSE, id_ok |-> FALSE, id |-> <<>>, name_ok |-> FALSE,
               name |-> <<>>]

\* an item of the collection: Err, or a device whose get_id and
\* get_friendlyname each give a string or fail
Devices ==
    {FailedItem}
    \cup {[ok |-> TRUE, id_ok |-> TRUE, id |-> id, name_ok |-> TRUE, name |-> name] :
            id \in Strings(1) \ {<<>>}, name \in Strings(MaxName) \ {<<>>}}
    \cup {[ok |-> TRUE, id_ok |-> FALSE, id |-> <<>>, name_ok |-> TRUE, name |-> name] :
            name \in Strings(MaxName) \ {<<>>}}
    \cup {[ok |-> TRUE, id_ok |-> TRUE, id |-> id, name_ok |-> FALSE, name |-> <<>>] :
            id \in Strings(1) \ {<<>>}}
    \cup {[ok |-> TRUE, id_ok |-> FALSE, id |-> <<>>, name_ok |-> FALSE, name |-> <<>>]}

\* what DeviceCollection::new(&direction) enumerates, in its order (the same
\* in every pass of one call)
Collections == UNION {[1..k -> Devices] : k \in 0..MaxDevices}

NoDevice == [kind |-> "none", index |-> 0]

\* one `for device in collection.into_iter()` loop: `device.map_err(..)?`
\* returns the error of the first failed item, `return Ok(device)` the first
\* device that matches (`matching` holds the places of the items that do)
Pass(collection, matching) ==
    LET stops == {i \in 1..Len(collection) : ~collection[i].ok \/ i \in matching}
    IN IF stops = {} THEN NoDevice
       ELSE LET first == CHOOSE i \in stops : \A j \in stops : i <= j
            IN [kind |-> IF collection[first].ok THEN "found" ELSE "error",
                index |-> first]

\* find_device_by_id: exact id; then the name, eq_ignore_ascii_case; then the
\* name, to_lowercase().contains(device_id.to_lowercase()); then Err
find_device_by_id(device_id, collection) ==
    LET Items(Matches(_)) == {i \in 1..Len(collection) : Matches(collection[i])}
        first_pass == Pass(collection,
                           Items(LAMBDA d : d.id_ok /\ d.id = device_id))
        second_pass == Pass(collection,
                            Items(LAMBDA d : d.name_ok
                                             /\ EqIgnoreAsciiCase(d.name, device_id)))
        third_pass == Pass(collection,
                           Items(LAMBDA d : d.name_ok
                                            /\ Contains(ToLowercase(d.name),
                                                        ToLowercase(device_id))))
    IN IF first_pass.kind # "none" THEN first_pass
       ELSE IF second_pass.kind # "none" THEN second_pass
       ELSE IF third_pass.kind # "none" THEN third_pass
       ELSE [kind |-> "not_found", index |-> 0]

\* a caller is about to look device_id up in the host's collection
InitResolve ==
    /\ Constructed
    /\ \E device_id \in Strings(MaxName) : \E collection \in Collections :
         call = [fn |-> "find_device_by_id", device_id |-> device_id,
                 collection |-> collection, returned |-> FALSE, result |-> NoDevice]

FindDevice ==
    /\ call.fn = "find_device_by_id"
    /\ ~call.returned
    /\ call' = [call EXCEPT !.returned = TRUE,
                            !.result = find_device_by_id(call.device_id, call.collection)]
    /\ UNCHANGED <<ringVars, engineVars>>

SpecResolve == InitResolve /\ [][FindDevice]_vars

(***************************************************************************)
(* audio_stream.rs: CaptureStream and RenderStream, one stream taken       *)
(* alone.  Its methods are called in any order; a call into the host       *)
(* succeeds or fails as the host decides, and get_mixformat reports the    *)
(* format the endpoint has at that moment.                                 *)
(***************************************************************************)
\* the mix formats an endpoint reports (block_align follows from the others)
Formats == [sample_rate : {44100, 48000}, channels : {1, 2},
            bits_per_sample : {16, 24, 32}]

\* format: None
NoFormat == [sample_rate |-> 0, channels |-> 0, bits_per_sample |-> 0]

\* Result<..>: Ok(value), or Err at the call `err`
Returned(op, value) == [op |-> op, ok |-> TRUE, value |-> value, err |-> ""]

Failed(op, err) == [op |-> op, ok |-> FALSE, value |-> 0, err |-> err]

\* CaptureStream::new, RenderStream::new; `reported` is the format the last
\* get_mixformat gave, `seen32` that some get_mixformat of this stream gave
\* 32 bits
NewStream(direction) ==
    [fn |-> "stream", direction |-> direction, client |-> FALSE, service |-> FALSE,
     format |-> NoFormat, started |-> FALSE,
     result |-> Returned("new", 0), reported |-> NoFormat, seen32 |-> FALSE]

\* the host calls of start that can fail after the width was accepted
StartCalls(direction) ==
    IF direction = "capture"
    THEN {"initialize_client", "get_audiocaptureclient", "start_stream"}
    ELSE {"initialize_client", "get_bufferframecount", "get_audiorenderclient",
          "start_stream"}

SupportedAnyWidth(format) == TRUE

\* `if format.bits_per_sample != 32 { return Err(..) }`
Supported(format) == format.bits_per_sample = 32

\* the stream after get_mixformat gave `format`
Reporting(stream, format) ==
    [stream EXCEPT !.reported = format,
                   !.seen32 = stream.seen32 \/ format.bits_per_sample = 32]

\* start(): Ok at once when started; else get_iaudioclient, get_mixformat, the
\* width check, the calls that set the client up, and only then the fields
StreamStart ==
    /\ call.fn = "stream"
    /\ \/ /\ call.started
          /\ call' = [call EXCEPT !.result = Returned("start", 0)]
       \/ /\ ~call.started
          /\ \/ \E err \in {"get_iaudioclient", "get_mixformat"} :
                  call' = [call EXCEPT !.result = Failed("start", err)]
             \/ \E format \in Formats :
                  LET stream == Reporting(call, format)
                  IN IF ~Supported(format)
                     THEN call' = [stream EXCEPT !.result = Failed("start", "unsupported")]
                     ELSE \/ \E err \in StartCalls(call.direction) :
                               call' = [stream EXCEPT !.result = Failed("start", err)]
                          \/ call' = [stream EXCEPT !.client = TRUE, !.service = TRUE,
                                                    !.format = format, !.started = TRUE,
                                                    !.result = Returned("start", 0)]
    /\ UNCHANGED <<ringVars, engineVars>>

\* stop(): Ok at once when not started; else stop_stream, and on its success
\* started = false
StreamStop ==
    /\ call.fn = "stream"
    /\ \/ /\ ~call.started
          /\ call' = [call EXCEPT !.result = Returned("stop", 0)]
       \/ /\ call.started
          /\ \/ call' = [call EXCEPT !.result = Failed("stop", "stop_stream")]
             \/ call' = [call EXCEPT !.started = FALSE, !.result = Returned("stop", 0)]
    /\ UNCHANGED <<ringVars, engineVars>>

\* CaptureStream::read: Err without a capture client or a format; else the
\* host's frames, or its error
StreamRead ==
    /\ call.fn = "stream"
    /\ call.direction = "capture"
    /\ IF ~call.service THEN call' = [call EXCEPT !.result = Failed("read", "no client")]
       ELSE IF call.format = NoFormat
       THEN call' = [call EXCEPT !.result = Failed("read", "no format")]
       ELSE \/ call' = [call EXCEPT !.result = Failed("read", "host")]
            \/ \E samples_read \in 0..MaxBlock :
                 call' = [call EXCEPT !.result = Returned("read", samples_read)]
    /\ UNCHANGED <<ringVars, engineVars>>

\* RenderStream::write: Err without a client, a render client or a format;
\* else the samples the host took, or its error
StreamWrite ==
    /\ call.fn = "stream"
    /\ call.direction = "render"
    /\ IF ~call.client \/ ~call.service
       THEN call' = [call EXCEPT !.result = Failed("write", "no client")]
       ELSE IF call.format = NoFormat
       THEN call' = [call EXCEPT !.result = Failed("write", "no format")]
       ELSE \/ call' = [call EXCEPT !.result = Failed("write", "host")]
            \/ \E samples_written \in 0..MaxBlock :
                 call' = [call EXCEPT !.result = Returned("write", samples_written)]
    /\ UNCHANGED <<ringVars, engineVars>>

InitStream ==
    /\ Constructed
    /\ \E direction \in {"capture", "render"} : call = NewStream(direction)

StreamNext ==
    \/ StreamStart
    \/ StreamStop
    \/ StreamRead
    \/ StreamWrite

SpecStream == InitStream /\ [][StreamNext]_vars

(***************************************************************************)
(* Numbers.  resample computes its frame count and source positions in     *)
(* f64 (main.rs 383-391).  An f64 has a 53-bit significand, more than an   *)
(* integer of the checker holds, so naturals of any size are kept as       *)
(* sequences of 15-bit limbs, least significant first, without a leading   *)
(* zero limb, and every f64 operation is the exact result rounded to       *)
(* nearest, ties to even, as the hardware rounds it.  The values a call    *)
(* meets here are far from the f64 exponent limits, so neither overflow    *)
(* nor subnormal numbers are modelled.                                     *)
(***************************************************************************)
F64_MANTISSA_DIGITS == 53

F32_MANTISSA_DIGITS == 24

LimbBits == 15

Limb == 2 ^ LimbBits

RECURSIVE Trim(_)
Trim(a) ==
    IF a = <<>> \/ a[Len(a)] # 0 THEN a ELSE Trim(SubSeq(a, 1, Len(a) - 1))

RECURSIVE Big(_)
Big(n) == IF n = 0 THEN <<>> ELSE <<n % Limb>> \o Big(n \div Limb)

RECURSIVE Small(_)
Small(a) == IF a = <<>> THEN 0 ELSE a[1] + Limb * Small(Tail(a))

Odd(a) == a # <<>> /\ a[1] % 2 = 1

RECURSIVE SmallBitLen(_)
SmallBitLen(n) == IF n = 0 THEN 0 ELSE 1 + SmallBitLen(n \div 2)

BitLen(a) ==
    IF a = <<>> THEN 0 ELSE LimbBits * (Len(a) - 1) + SmallBitLen(a[Len(a)])

Less(a, b) ==
    IF Len(a) # Len(b) THEN Len(a) < Len(b)
    ELSE LET differ == {i \in 1..Len(a) : a[i] # b[i]}
         IN  /\ differ # {}
             /\ LET top == CHOOSE i \in differ : \A j \in differ : j <= i
                IN  a[top] < b[top]

RECURSIVE PlusCarry(_, _, _)
PlusCarry(a, b, carry) ==
    IF a = <<>> /\ b = <<>> THEN Big(carry)
    ELSE LET t == (IF a = <<>> THEN 0 ELSE a[1])
                  + (IF b = <<>> THEN 0 ELSE b[1]) + carry
         IN  <<t % Limb>> \o PlusCarry(IF a = <<>> THEN a ELSE Tail(a),
                                       IF b = <<>> THEN b ELSE Tail(b),
                                       t \div Limb)

Plus(a, b) == PlusCarry(a, b, 0)

\* a - b for a >= b.
RECURSIVE MinusBorrow(_, _, _)
MinusBorrow(a, b, borrow) ==
    IF a = <<>> THEN <<>>
    ELSE LET t == a[1] - (IF b = <<>> THEN 0 ELSE b[1]) - borrow
         IN  <<IF t < 0 THEN t + Limb ELSE t>>
             \o MinusBorrow(Tail(a), IF b = <<>> THEN b ELSE Tail(b),
                            IF t < 0 THEN 1 ELSE 0)

Minus(a, b) == Trim(MinusBorrow(a, b, 0))

\* a * n for n below Limb.
RECURSIVE TimesCarry(_, _, _)
TimesCarry(a, n, carry) ==
    IF a = <<>> THEN Big(carry)
    ELSE LET t == a[1] * n + carry
         IN  <<t % Limb>> \o TimesCarry(Tail(a), n, t \div Limb)

TimesLimb(a, n) == IF n = 0 THEN <<>> ELSE TimesCarry(a, n, 0)

RECURSIVE Times(_, _)
Times(a, b) ==
    IF a = <<>> \/ b = <<>> THEN <<>>
    ELSE Plus(TimesLimb(a, b[1]), Trim(<<0>> \o Times(a, Tail(b))))

\* a \div 2^k for k below LimbBits
RECURSIVE DropBits(_, _)
DropBits(a, k) ==
    IF a = <<>> THEN a
    ELSE <<(a[1] \div (2 ^ k))
           + (IF Len(a) > 1 THEN (a[2] % (2 ^ k)) * (2 ^ (LimbBits - k)) ELSE 0)>>
         \o DropBits(Tail(a), k)

RECURSIVE ShiftLeft(_, _)
ShiftLeft(a, s) ==
    IF a = <<>> THEN a
    ELSE IF s >= LimbBits THEN <<0>> \o ShiftLeft(a, s - LimbBits)
    ELSE TimesLimb(a, 2 ^ s)

RECURSIVE ShiftRight(_, _)
ShiftRight(a, s) ==
    IF s = 0 \/ a = <<>> THEN a
    ELSE IF s >= LimbBits THEN ShiftRight(Tail(a), s - LimbBits)
    ELSE Trim(DropBits(a, s))

LimbAt(a, i) == IF i <= Len(a) THEN a[i] ELSE 0

\* The largest k, at most `guess`, with k * d <= r.
RECURSIVE Fit(_, _, _)
Fit(guess, r, d) ==
    IF Less(r, TimesLimb(d, guess)) THEN Fit(guess - 1, r, d) ELSE guess

\* Long division, one limb of the dividend at a time: s holds the quotient
\* and the remainder of the limbs taken so far.  The top limb of d has its
\* highest bit set, so the quotient of the two top limbs of the remainder by
\* the top limb of d is the next limb of the quotient or just above it.
DivStep(s, limb, d) ==
    LET r == Trim(<<limb>> \o s.r)
        n == Len(d)
        guess == (LimbAt(r, n + 1) * Limb + LimbAt(r, n)) \div d[n]
        digit == Fit(IF guess < Limb THEN guess ELSE Limb - 1, r, d)
    IN  [q |-> Trim(<<digit>> \o s.q), r |-> Minus(r, TimesLimb(d, digit))]

RECURSIVE DivLimbs(_, _)
DivLimbs(a, d) ==
    IF a = <<>> THEN [q |-> <<>>, r |-> <<>>]
    ELSE DivStep(DivLimbs(Tail(a), d), a[1], d)

\* Quotient of a by d, d > 0, and whether it is exact; both are shifted
\* first to set the highest bit of the top limb of d.
DivMod(a, d) ==
    LET s == LimbBits - SmallBitLen(d[Len(d)])
        result == DivLimbs(ShiftLeft(a, s), ShiftLeft(d, s))
    IN  [q |-> result.q, exact |-> result.r = <<>>]

\* A float that is not negative: m * 2^e, m of at most 53 bits in an f64 and
\* of at most 24 in an f32.
AsF64(n) == [m |-> Big(n), e |-> 0]

\* a * 2^e, with `inexact` telling that the exact value lies above it,
\* rounded to so many bits: to nearest, ties to even.
RoundTo(digits, a, e, inexact) ==
    LET drop == BitLen(a) - digits
    IN  IF drop <= 0 THEN [m |-> a, e |-> e]
        ELSE LET kept == ShiftRight(a, drop)
                 rest == Minus(a, ShiftLeft(kept, drop))
                 half == ShiftLeft(<<1>>, drop - 1)
                 up == \/ Less(half, rest)
                       \/ rest = half /\ (inexact \/ Odd(kept))
             IN  [m |-> IF up THEN Plus(kept, <<1>>) ELSE kept, e |-> e + drop]

F64Mul(x, y) == RoundTo(F64_MANTISSA_DIGITS, Times(x.m, y.m), x.e + y.e, FALSE)

\* x / y for y > 0: the quotient to two bits more than the significand, and
\* whether it is exact.
F64Div(x, y) ==
    IF x.m = <<>> THEN x
    ELSE LET more == F64_MANTISSA_DIGITS + 2 + BitLen(y.m) - BitLen(x.m)
             s == IF more > 0 THEN more ELSE 0
             d == DivMod(ShiftLeft(x.m, s), y.m)
         IN  RoundTo(F64_MANTISSA_DIGITS, d.q, x.e - s - y.e, ~d.exact)

\* x - y for x >= y.
F64Sub(x, y) ==
    LET e == Min(x.e, y.e)
    IN  RoundTo(F64_MANTISSA_DIGITS,
                Minus(ShiftLeft(x.m, x.e - e), ShiftLeft(y.m, y.e - e)), e, FALSE)

\* `as usize` of an f64 that is not negative: the integer part.
AsUsize(x) ==
    IF x.e >= 0 THEN Small(ShiftLeft(x.m, x.e))
    ELSE Small(ShiftRight(x.m, 0 - x.e))

IsWhole(x) ==
    x.e >= 0 \/ ShiftLeft(ShiftRight(x.m, 0 - x.e), 0 - x.e) = x.m

F64Ceil(x) == IF IsWhole(x) THEN x ELSE AsF64(AsUsize(x) + 1)

\* `as f32` of an f64
AsF32(x) == RoundTo(F32_MANTISSA_DIGITS, x.m, x.e, FALSE)

(***************************************************************************)
(* Samples.  A sample is an f32: a finite value, kept as an integer where  *)
(* it is one, the largest finite value f32::MAX with its sign, an          *)
(* infinity with its sign, or NaN.  A finite result that is none of these  *)
(* is kept as the operation and its operands.                              *)
(***************************************************************************)
Finite(v) == [class |-> "finite", v |-> v, of |-> <<>>]

F32Max(sign) == [class |-> "max", v |-> sign, of |-> <<>>]

Infinite(sign) == [class |-> "inf", v |-> sign, of |-> <<>>]

NaN == [class |-> "nan", v |-> 0, of |-> <<>>]

Term(op, operands) == [class |-> "term", v |-> 0, of |-> <<op>> \o operands]

Samples == {Finite(0), Finite(2), F32Max(1), F32Max(-1), Infinite(1), NaN}

\* == of two f32: NaN equals nothing
F32Eq(a, b) == a.class # "nan" /\ b.class # "nan" /\ a = b

\* a + b
F32Add(a, b) ==
    IF a.class = "nan" \/ b.class = "nan" THEN NaN
    ELSE IF a.class = "inf" \/ b.class = "inf"
         THEN IF a.class = b.class /\ a.v # b.v THEN NaN
              ELSE IF a.class = "inf" THEN a ELSE b
    ELSE IF a.class = "max" /\ b.class = "max"
         THEN IF a.v = b.v THEN Infinite(a.v) ELSE Finite(0)
    ELSE IF a.class = "finite" /\ b.class = "finite" THEN Finite(a.v + b.v)
    ELSE IF a.class = "max" /\ b.class = "finite" THEN a
    ELSE IF a.class = "finite" /\ b.class = "max" THEN b
    ELSE Term("+", <<a, b>>)

\* -a
F32Neg(a) ==
    IF a.class \in {"finite", "max", "inf"} THEN [a EXCEPT !.v = 0 - a.v]
    ELSE IF a.class = "nan" THEN a
    ELSE Term("-", <<a>>)

\* a - b
F32Sub(a, b) == F32Add(a, F32Neg(b))

F32HalfForgotten(a) == a

\* a * 0.5
F32Half(a) ==
    IF a.class \in {"nan", "inf"} THEN a
    ELSE IF a.class = "finite" /\ a.v % 2 = 0 THEN Finite(a.v \div 2)
    ELSE Term("* 0.5", <<a>>)

F32ScaleByOne(frac, a) == a

\* frac * a, for frac an f32 from 0.0 to 1.0
F32Scale(frac, a) ==
    IF a.class = "nan" THEN a
    ELSE IF frac.m = <<>> THEN IF a.class = "inf" THEN NaN ELSE Finite(0)
    ELSE IF a.class = "inf" \/ a = Finite(0) THEN a
    ELSE Term("*", <<frac, a>>)

(***************************************************************************)
(* main.rs: convert_channels and resample, each taken alone.  A call gets  *)
(* a block of samples, either distinct finite samples in their order or a  *)
(* short block of any samples, and an output vector that holds what an     *)
(* earlier call left in it (`held` keeps that for the record).             *)
(***************************************************************************)
\* the longest block of distinct samples
MaxInput == 27
\* the longest block of any samples
MaxShort == 2
\* the most channels of a format
MaxChannels == 3
\* the highest sample rate
MaxRate == 7

Ramp(n) == [i \in 1..n |-> Finite(2 * i)]

RECURSIVE Short(_)
Short(n) ==
    IF n = 0 THEN {<<>>}
    ELSE Short(n - 1)
         \cup {Append(s, x) : s \in {t \in Short(n - 1) : Len(t) = n - 1}, x \in Samples}

Blocks == {Ramp(n) : n \in 0..MaxInput} \cup Short(MaxShort)

\* what the output vector holds before a call
Scratch == {<<>>, <<Finite(-2)>>}

\* convert_channels: frames = input.len() / in_ch; each output frame is the
\* stereo pair averaged, or the first out_ch channels, or the in_ch channels
\* followed by copies of channel 0
convert_channels(input, in_ch, out_ch, output) ==
    LET frames == Len(input) \div in_ch
        Pushed(frame, ch) ==
            LET in_start == frame * in_ch
            IN  IF out_ch <= in_ch
                THEN IF in_ch = 2 /\ out_ch = 1
                     THEN F32Half(F32Add(input[in_start + 1], input[in_start + 2]))
                     ELSE input[in_start + ch + 1]
                ELSE IF ch < in_ch THEN input[in_start + ch + 1]
                     ELSE input[in_start + 1]
    IN  [k \in 1..(frames * out_ch) |-> Pushed((k - 1) \div out_ch, (k - 1) % out_ch)]

\* resample: the frame count and the source positions in f64, the sample
\* s0 + frac * (s1 - s0) in f32
resample(input, in_rate, out_rate, channels, output) ==
    LET in_frames == Len(input) \div channels
        ratio == F64Div(AsF64(out_rate), AsF64(in_rate))
        out_frames == AsUsize(F64Ceil(F64Mul(AsF64(in_frames), ratio)))
        Pushed(frame, ch) ==
            LET src_pos == F64Div(AsF64(frame), ratio)
                src_idx == AsUsize(src_pos)
                frac == AsF32(F64Sub(src_pos, AsF64(src_idx)))
                idx0 == Min(src_idx, in_frames - 1)
                idx1 == Min(src_idx + 1, in_frames - 1)
                s0 == input[idx0 * channels + ch + 1]
                s1 == input[idx1 * channels + ch + 1]
            IN  F32Add(s0, F32Scale(frac, F32Sub(s1, s0)))
    IN  IF in_frames = 0 THEN <<>>
        ELSE [k \in 1..(out_frames * channels) |->
                Pushed((k - 1) \div channels, (k - 1) % channels)]

InitChannels ==
    /\ Constructed
    /\ \E input \in Blocks : \E in_ch \in 1..MaxChannels :
       \E out_ch \in 1..MaxChannels : \E output \in Scratch :
         call = [fn |-> "convert_channels", input |-> input, in_ch |-> in_ch,
                 out_ch |-> out_ch, held |-> output, output |-> output,
                 returned |-> FALSE]

ConvertChannels ==
    /\ call.fn = "convert_channels"
    /\ ~call.returned
    /\ call' = [call EXCEPT !.returned = TRUE,
                            !.output = convert_channels(call.input, call.in_ch,
                                                        call.out_ch, call.output)]
    /\ UNCHANGED <<ringVars, engineVars>>

SpecChannels == InitChannels /\ [][ConvertChannels]_vars

InitResample ==
    /\ Constructed
    /\ \E input \in Blocks : \E in_rate \in 1..MaxRate :
       \E out_rate \in 1..MaxRate : \E channels \in 1..MaxChannels :
       \E output \in Scratch :
         call = [fn |-> "resample", input |-> input, in_rate |-> in_rate,
                 out_rate |-> out_rate, channels |-> channels, held |-> output,
                 output |-> output, returned |-> FALSE]

Resample ==
    /\ call.fn = "resample"
    /\ ~call.returned
    /\ call' = [call EXCEPT !.returned = TRUE,
                            !.output = resample(call.input, call.in_rate,
                                                call.out_rate, call.channels,
                                                call.output)]
    /\ UNCHANGED <<ringVars, engineVars>>

SpecResample == InitResample /\ [][Resample]_vars

(***************************************************************************)
(* audio_stream.rs: the byte counts of CaptureStream::read and             *)
(* RenderStream::write, one call of a started stream taken alone.  The     *)
(* host decides how many frames it has, how many it gives and how much of  *)
(* its buffer is free.                                                     *)
(***************************************************************************)
\* the frames the host gives one capture read at most
MaxFrames == 3

\* the longest slice a caller passes to read or write
MaxSlice == 7
\* buffer_frame_count of the render stream at most
MaxBufferFrames == 3

\* the formats of a started stream: start accepts 32 bits only
StartedFormats ==
    {[sample_rate |-> DEFAULT_SAMPLE_RATE, channels |-> ch, bits_per_sample |-> 32] :
        ch \in 1..MaxChannels}

\* block_align of a mix format: nBlockAlign = nChannels * wBitsPerSample / 8
BlockAlign(format) == format.channels * (format.bits_per_sample \div 8)

\* no host call made
NoTransfer == [called |-> FALSE, requested |-> 0, used |-> 0, passed |-> 0, ret |-> 0]

\* CaptureStream::read(buffer) once the host has `available_frames` frames and
\* read_from_device gives frames_read of them: the bytes asked for, the bytes
\* used, and Ok(samples_read)
StreamReadBytes(format, room, available_frames, frames_read) ==
    IF available_frames = 0 THEN NoTransfer
    ELSE LET bytes_per_frame == BlockAlign(format)
             actual_bytes == frames_read * bytes_per_frame
         IN [called |-> TRUE,
             requested |-> available_frames * bytes_per_frame,
             used |-> actual_bytes,
             passed |-> 0,
             ret |-> Min(actual_bytes \div 4, room)]

FramesToWriteRoundedUp(len, channels, available_frames) ==
    Min((len + channels - 1) \div channels, available_frames)

\* frames_to_write = (samples.len() / channels).min(available_frames)
FramesToWrite(len, channels, available_frames) ==
    Min(len \div channels, available_frames)

\* RenderStream::write(samples) with `padding` frames of the device buffer in
\* use: the bytes passed to write_to_device and Ok(samples_to_write)
StreamWriteBytes(format, len, buffer_frame_count, padding) ==
    LET available_frames == buffer_frame_count - padding
        channels == format.channels
        frames_to_write == FramesToWrite(len, channels, available_frames)
        samples_to_write == frames_to_write * channels
    IN IF available_frames = 0 \/ frames_to_write = 0 THEN NoTransfer
       ELSE [called |-> TRUE, requested |-> 0, used |-> 0,
             passed |-> samples_to_write * 4,
             ret |-> samples_to_write]

\* a started stream and the slice its caller passes
InitBytes ==
    /\ Constructed
    /\ \E fn \in {"CaptureStream::read", "RenderStream::write"} :
       \E format \in StartedFormats : \E len \in 0..MaxSlice :
       \E buffer_frame_count \in 1..MaxBufferFrames :
         call = [fn |-> fn, format |-> format, len |-> len,
                 buffer_frame_count |-> buffer_frame_count,
                 returned |-> FALSE, bytes |-> NoTransfer]

BytesRead ==
    /\ call.fn = "CaptureStream::read"
    /\ ~call.returned
    /\ \E available_frames \in 0..MaxFrames : \E frames_read \in 0..available_frames :
         call' = [call EXCEPT !.returned = TRUE,
                              !.bytes = StreamReadBytes(call.format, call.len,
                                                        available_frames, frames_read)]
    /\ UNCHANGED <<ringVars, engineVars>>

BytesWrite ==
    /\ call.fn = "RenderStream::write"
    /\ ~call.returned
    /\ \E padding \in 0..call.buffer_frame_count :
         call' = [call EXCEPT !.returned = TRUE,
                              !.bytes = StreamWriteBytes(call.format, call.len,
                                                         call.buffer_frame_count, padding)]
    /\ UNCHANGED <<ringVars, engineVars>>

BytesNext ==
    \/ BytesRead
    \/ BytesWrite

SpecBytes == InitBytes /\ [][BytesNext]_vars

(***************************************************************************)
(* The mic path with its capture format (main.rs 623-802): the two mic     *)
(* workers, their ring, the capture target, the enable flag and the        *)
(* capture-format snapshot, taken alone while the proxy runs.  Every       *)
(* successful start reads the format the endpoint has at that moment, as   *)
(* the host decides, among the formats the endpoints of the behaviour      *)
(* have; a render write is given the free frames the device has at that    *)
(* moment.  A sample carries the channel count of the session that         *)
(* captured it and its place in its frame.                                 *)
(***************************************************************************)
\* the formats a mic endpoint reports among those start accepts
CaptureFormats == {f \in Formats : Supported(f) /\ f.sample_rate = DEFAULT_SAMPLE_RATE}

\* the format with `channels` channels
WithChannels(channels) == CHOOSE f \in CaptureFormats : f.channels = channels

\* the host of one behaviour: the formats its capture endpoints and its render
\* endpoint report, and the free frames its render device may have; `counted`
\* says whether the samples taken from the ring are counted in this behaviour
Host(capture_channels, render_channels, rooms) ==
    [capture_formats |-> {WithChannels(ch) : ch \in capture_channels},
     render_formats |-> {WithChannels(ch) : ch \in render_channels},
     rooms |-> rooms, counted |-> FALSE]

\* the sample at place k of a frame captured by a session of `channels`
Sample(channels, k) == 10 * channels + k
ChannelsOf(sample) == sample \div 10
PlaceOf(sample) == sample % 10

\* the frames_read frames of a session with the format `format`, as
\* read_from_device lays them out
FramesOf(format, frames_read) ==
    [i \in 1..(frames_read * format.channels) |->
        Sample(format.channels, (i - 1) % format.channels)]

\* bytes_to_f32(&byte_buffer[..actual_bytes], buffer): the floats of the
\* bytes, as far as the destination has room
BytesToF32(floats, room) == SubSeq(floats, 1, Min(Len(floats), room))

\* the host calls that fail in one behaviour of the mic path
PathFaults == 2

\* the capture targets a client sets
MicInputs == {MicIn, "headset"}

\* Err(..) as the result of a write
WriteErr == -1

\* no block taken yet
NoBlock == [block |-> <<>>, cf |-> NoFormat, offered |-> 0, ret |-> 0, before |-> 0]

\* the samples the render worker has taken from the ring are counted modulo
\* the largest channel count the capture endpoints report (a multiple of each
\* of them)
FrameCycle(host) ==
    CHOOSE n \in {f.channels : f \in host.capture_formats} :
        \A f \in host.capture_formats : f.channels <= n

\* the count after `samples_read` more samples were taken
Consumed(path, samples_read) ==
    IF path.host.counted
    THEN (path.consumed + samples_read) % FrameCycle(path.host)
    ELSE path.consumed

\* run_proxy with the mic path configured, before the mic threads start
NewPath(host) ==
    [fn |-> "path", host |-> host, mic_input_id |-> MicIn, mic_enabled |-> TRUE,
     capture_format |-> NoFormat, buffer |-> EmptyRing,
     capture |-> WorkerInit, capture_fmt |-> NoFormat,
     render |-> WorkerInit, render_fmt |-> NoFormat, taken |-> NoBlock,
     consumed |-> 0]

\* what the mic path taken alone leaves as it was constructed
besidePath == <<ringVars, controlVars, spk_ring, mic_ring, ipc, main, sc, sr, mc, mr,
                supplied, delivered, ack, budget, hist>>

\* the format get_mixformat reports to a start that succeeds
Reported(starts) == IF starts THEN call.host.capture_formats ELSE {NoFormat}

RenderReported(starts) == IF starts THEN call.host.render_formats ELSE {NoFormat}

\* handle_ipc_command, SetMicInput { device_id } with the mic path configured
PathSetMicInput ==
    /\ call.fn = "path"
    /\ \E device_id \in MicInputs :
         call' = [call EXCEPT !.mic_input_id = device_id]
    /\ UNCHANGED <<besidePath, faults>>

\* handle_ipc_command, EnableMic { enabled } with the mic path configured
PathEnableMic ==
    /\ call.fn = "path"
    /\ \E enabled \in BOOLEAN : call' = [call EXCEPT !.mic_enabled = enabled]
    /\ UNCHANGED <<besidePath, faults>>

\* run_mic_capture_loop up to its loop: create_and_start_capture(&device_id)?
\* and `if let Some(fmt) = capture.format() { *capture_format.write() = .. }`
PathCaptureStart ==
    /\ call.fn = "path"
    /\ call.capture.pc = "spawned"
    /\ \E open_ok \in Calls(TRUE) : \E format \in Reported(open_ok) :
         /\ Faults(StartFailures(TRUE, open_ok))
         /\ call' = [call EXCEPT
                       !.capture = Started(call.capture, call.mic_input_id, TRUE, open_ok),
                       !.capture_fmt = format,
                       !.capture_format = format]
    /\ UNCHANGED besidePath

\* the path after the hot-swap block of run_mic_capture_loop (649-673): the
\* new session publishes its format, the session restarted on the previous
\* endpoint does not
PathSwapped(path, stop_ok, open_ok, prev_ok, format) ==
    LET swapped == SwapChecked(path.capture, path.mic_input_id, stop_ok, open_ok, prev_ok)
    IN IF swapped.swap = "switched"
       THEN [path EXCEPT !.capture = swapped, !.capture_fmt = format,
                         !.capture_format = format]
       ELSE IF swapped.swap = "fellback"
       THEN [path EXCEPT !.capture = swapped, !.capture_fmt = format]
       ELSE [path EXCEPT !.capture = swapped]

\* CaptureStream::read into the 4096-sample temp_buffer: Err, or the host's
\* frames cut to the buffer
PathCaptureReads(path) ==
    (IF faults < budget THEN {[ok |-> FALSE, block |-> <<>>]} ELSE {})
    \cup {[ok |-> TRUE,
           block |-> BytesToF32(FramesOf(path.capture_fmt, frames_read), TempLen)] :
          frames_read \in 0..MaxFrames}

\* capture.read's result as the loop matches it
Matched(result) == [ok |-> result.ok, samples_read |-> Len(result.block)]

\* the path after `match capture.read(&mut temp_buffer)` (675-709)
PathCaptured(path, result, recover_ok, format) ==
    LET after == CaptureBlock(path.capture, Matched(result), recover_ok)
    IN IF result.ok /\ Len(result.block) > 0
       THEN [path EXCEPT !.capture = after,
                         !.buffer = RingWrite(path.buffer, result.block).ring]
       ELSE IF Replaced(path.capture, result.ok, recover_ok)
       THEN [path EXCEPT !.capture = after, !.capture_fmt = format,
                         !.capture_format = format]
       ELSE [path EXCEPT !.capture = after]

\* if !mic_enabled.load(SeqCst) { sleep(50 ms); continue; }
PathCaptureDisabled ==
    /\ call.fn = "path"
    /\ call.capture.pc = "top"
    /\ ~call.mic_enabled
    /\ UNCHANGED vars

\* one enabled iteration of run_mic_capture_loop: the hot-swap check,
\* capture.read, buffer.write or the error arm
PathCaptureIteration ==
    /\ call.fn = "path"
    /\ call.capture.pc = "top"
    /\ call.mic_enabled
    /\ LET swaps == call.mic_input_id # call.capture.cur
       IN
       \E stop_ok \in Calls(swaps) :
       \E open_ok \in Calls(swaps /\ stop_ok) :
       \E prev_ok \in Calls(~open_ok) :
       \E swap_format \in Reported(swaps /\ stop_ok /\ (open_ok \/ prev_ok)) :
       LET swapped == PathSwapped(call, stop_ok, open_ok, prev_ok, swap_format)
           swap_failures == SwapCheckFailures(call.capture, call.mic_input_id,
                                              stop_ok, open_ok, prev_ok)
       IN IF swapped.capture.pc # "top"
          THEN /\ Faults(swap_failures)
               /\ call' = swapped
          ELSE \E result \in PathCaptureReads(swapped) :
               \E recover_ok \in Calls(Recovering(swapped.capture, result.ok)) :
               \E format \in Reported(Replaced(swapped.capture, result.ok, recover_ok)) :
                  /\ Faults(swap_failures
                            + CaptureFailures(swapped.capture, Matched(result), recover_ok))
                  /\ call' = PathCaptured(swapped, result, recover_ok, format)
    /\ UNCHANGED besidePath

\* run_mic_render_loop up to its loop: create_and_start_render(mic_output_id)?
\* and the pre-fill write (its result dropped)
PathRenderStart ==
    /\ call.fn = "path"
    /\ call.render.pc = "spawned"
    /\ \E open_ok \in Calls(TRUE) : \E write_ok \in Calls(open_ok) :
       \E format \in RenderReported(open_ok) :
         /\ Faults(StartFailures(TRUE, open_ok) + (IF write_ok THEN 0 ELSE 1))
         /\ call' = [call EXCEPT !.render = Started(call.render, MicOut, TRUE, open_ok),
                                  !.render_fmt = format]
    /\ UNCHANGED besidePath

\* formats_need_conversion
FormatsNeedConversion(cap, rnd) ==
    cap.sample_rate # rnd.sample_rate \/ cap.channels # rnd.channels

\* the length of what a render loop passes to render.write for a block of
\* `len` samples: of convert_audio's result where the snapshot is present and
\* differs from the render format (the formats of a path share the rate, so
\* convert_audio runs convert_channels alone), else of the block
OfferedLen(len, cap_fmt, rnd_fmt) ==
    IF cap_fmt # NoFormat /\ rnd_fmt # NoFormat /\ FormatsNeedConversion(cap_fmt, rnd_fmt)
    THEN IF cap_fmt.channels # rnd_fmt.channels
         THEN (len \div cap_fmt.channels) * rnd_fmt.channels
         ELSE len
    ELSE len

\* RenderStream::write(samples) of a started stream whose device has
\* available_frames free: Ok(samples_to_write)
WriteRet(len, rnd_fmt, available_frames) ==
    FramesToWrite(len, rnd_fmt.channels, available_frames) * rnd_fmt.channels

WriteSucceededInFull(ret, passed) == ret = passed

\* `if let Err(e) = write_result { .. } else { error_count = 0 }`
WriteSucceeded(ret, passed) == ret # WriteErr

\* the block of an iteration of a render loop: the samples buffer.read gave,
\* the capture-format snapshot read for them, the length passed to
\* render.write and what it returned; `before` is the count of the samples
\* taken before it
BlockTaken(out, cap_fmt, passed, ret) ==
    [block |-> out, cf |-> cap_fmt, offered |-> passed, ret |-> ret,
     before |-> call.consumed]

\* if !mic_enabled.load(SeqCst) { render.write(&silence); sleep(10 ms); continue; }
PathRenderDisabled ==
    /\ call.fn = "path"
    /\ call.render.pc = "top"
    /\ ~call.mic_enabled
    /\ \E write_ok \in Calls(TRUE) : Faults(IF write_ok THEN 0 ELSE 1)
    /\ UNCHANGED <<besidePath, call>>

\* one enabled iteration of run_mic_render_loop: buffer.read, the snapshot,
\* the write of the block (converted or not) or of silence, the error arm
PathRenderIteration ==
    /\ call.fn = "path"
    /\ call.render.pc = "top"
    /\ call.mic_enabled
    /\ LET res == RingRead(call.buffer, TempLen)
           samples_read == Len(res.out)
           passed == OfferedLen(samples_read, call.capture_format, call.render_fmt)
       IN \E ret \in (IF faults < budget THEN {WriteErr} ELSE {})
                     \cup {WriteRet(passed, call.render_fmt, available_frames) :
                             available_frames \in call.host.rooms} :
          LET write_ok == WriteSucceeded(ret, passed)
              wrote == write_ok \/ samples_read = 0
          IN
          \E recover_ok \in Calls(Recovering(call.render, wrote)) :
          \E format \in RenderReported(Replaced(call.render, wrote, recover_ok)) :
            /\ Faults(RenderFailures(call.render, samples_read, write_ok, recover_ok))
            /\ call' = [call EXCEPT
                          !.buffer = res.ring,
                          !.consumed = Consumed(call, samples_read),
                          !.render = RenderBlock(call.render, samples_read,
                                                 write_ok, recover_ok),
                          !.render_fmt = IF Replaced(call.render, wrote, recover_ok)
                                         THEN format ELSE @,
                          !.taken = IF samples_read > 0
                                    THEN BlockTaken(res.out, call.capture_format,
                                                    passed, ret)
                                    ELSE NoBlock]
    /\ UNCHANGED besidePath

\* the mic path where the capture endpoints report one channel or two and
\* the render device has room for every block
InitMicPath ==
    /\ InitRing
    /\ InitEngine(FALSE, FALSE, {})
    /\ budget = PathFaults
    /\ hist = HistOff
    /\ call = NewPath(Host({1, 2}, {DEFAULT_CHANNELS}, {MaxBufferFrames}))

MicPathNext ==
    \/ PathSetMicInput
    \/ PathEnableMic
    \/ PathCaptureStart
    \/ PathCaptureDisabled
    \/ PathCaptureIteration
    \/ PathRenderStart
    \/ PathRenderDisabled
    \/ PathRenderIteration

SpecMicPath == InitMicPath /\ [][MicPathNext]_vars

\* the mic path where every endpoint reports one format and the render device
\* has any number of free frames
InitMicRender ==
    /\ InitRing
    /\ InitEngine(FALSE, FALSE, {})
    /\ budget = MaxFaults
    /\ hist = HistOff
    /\ \E channels \in {1, 2} :
         call = NewPath([Host({channels}, {channels}, 0..MaxBufferFrames)
                            EXCEPT !.counted = TRUE])

SpecMicRender == InitMicRender /\ [][MicPathNext]_vars

(***************************************************************************)
(* main.rs: run_speaker_render_loop statement by statement, for the        *)
(* sessions the worker holds between its calls: `render`, and in the error *)
(* arm `new_render` from the match on create_and_start_render until the    *)
(* assignment that drops the session held before.                          *)
(***************************************************************************)
\* the worker before create_and_start_render(&device_id)
NewLoop ==
    [fn |-> "loop", pc |-> "start", running |-> TRUE,
     output_device_id |-> SpeakerOut, current_device_id |-> "",
     new_device_id |-> "", render |-> NoSession, new_render |-> NoSession,
     error_count |-> 0]

\* the function returns: its locals are dropped
LoopReturned(loop, pc) ==
    [loop EXCEPT !.pc = pc, !.render = NoSession, !.new_render = NoSession]

\* handle_ipc_command, SetOutput { device_id }
LoopSetOutput ==
    /\ call.pc \notin {"returned_ok", "returned_err"}
    /\ \E device_id \in DeviceIds \ {call.output_device_id} :
         call' = [call EXCEPT !.output_device_id = device_id]
    /\ UNCHANGED <<besidePath, faults>>

\* running.store(false, SeqCst)
LoopStopRequested ==
    /\ call.running
    /\ call.pc \notin {"returned_ok", "returned_err"}
    /\ call' = [call EXCEPT !.running = FALSE]
    /\ UNCHANGED <<besidePath, faults>>

\* let mut render = create_and_start_render(&device_id)?
LoopStart ==
    /\ call.pc = "start"
    /\ \E open_ok \in Calls(TRUE) :
         /\ Fault(open_ok)
         /\ call' = IF open_ok
                    THEN [call EXCEPT !.pc = "top",
                                      !.render = Session(call.output_device_id, TRUE),
                                      !.current_device_id = call.output_device_id]
                    ELSE LoopReturned(call, "returned_err")
    /\ UNCHANGED besidePath

\* while running.load(SeqCst), and the read of the target
LoopTop ==
    /\ call.pc = "top"
    /\ call' = IF ~call.running THEN [call EXCEPT !.pc = "exit"]
               ELSE IF call.output_device_id # call.current_device_id
               THEN [call EXCEPT !.pc = "swap_stop",
                                 !.new_device_id = call.output_device_id]
               ELSE [call EXCEPT !.pc = "write"]
    /\ UNCHANGED <<besidePath, faults>>

\* render.stop()?
LoopSwapStop ==
    /\ call.pc = "swap_stop"
    /\ \E stop_ok \in Calls(TRUE) :
         /\ Fault(stop_ok)
         /\ call' = IF stop_ok
                    THEN [call EXCEPT !.pc = "swap_open", !.render.started = FALSE]
                    ELSE LoopReturned(call, "returned_err")
    /\ UNCHANGED besidePath

\* match create_and_start_render(&new_device_id): Ok(new_render) =>
\* render = new_render, ..; Err => the fallback
LoopSwapOpen ==
    /\ call.pc = "swap_open"
    /\ \E open_ok \in Calls(TRUE) :
         /\ Fault(open_ok)
         /\ call' = IF open_ok
                    THEN [call EXCEPT !.pc = "write",
                                      !.render = Session(call.new_device_id, TRUE),
                                      !.current_device_id = call.new_device_id,
                                      !.error_count = 0]
                    ELSE [call EXCEPT !.pc = "fallback"]
    /\ UNCHANGED besidePath

\* render = create_and_start_render(&current_device_id).context(..)?
LoopFallback ==
    /\ call.pc = "fallback"
    /\ \E prev_ok \in Calls(TRUE) :
         /\ Fault(prev_ok)
         /\ call' = IF prev_ok
                    THEN [call EXCEPT !.pc = "write",
                                      !.render = Session(call.current_device_id, TRUE)]
                    ELSE LoopReturned(call, "returned_err")
    /\ UNCHANGED besidePath

\* buffer.read and, with samples, render.write: Err => error_count += 1 and
\* the return at MAX_RECOVERY_ATTEMPTS; Ok => error_count = 0; with no
\* samples the result of the write of silence is dropped
LoopWrite ==
    /\ call.pc = "write"
    /\ \E samples \in BOOLEAN : \E write_ok \in Calls(samples) :
         /\ Fault(write_ok)
         /\ call' = IF ~samples THEN [call EXCEPT !.pc = "top"]
                    ELSE IF write_ok THEN [call EXCEPT !.pc = "top", !.error_count = 0]
                    ELSE IF call.error_count + 1 >= MAX_RECOVERY_ATTEMPTS
                    THEN LoopReturned([call EXCEPT !.error_count = @ + 1], "returned_err")
                    ELSE [call EXCEPT !.pc = "recover", !.error_count = @ + 1]
    /\ UNCHANGED besidePath

\* match create_and_start_render(&current_device_id): Ok(new_render) or Err
LoopRecoverOpen ==
    /\ call.pc = "recover"
    /\ \E recover_ok \in Calls(TRUE) :
         /\ Fault(recover_ok)
         /\ call' = IF recover_ok
                    THEN [call EXCEPT !.pc = "assign",
                                      !.new_render = Session(call.current_device_id, TRUE)]
                    ELSE [call EXCEPT !.pc = "top"]
    /\ UNCHANGED besidePath

\* render = new_render: the session held until now is dropped
LoopAssign ==
    /\ call.pc = "assign"
    /\ call' = [call EXCEPT !.pc = "top", !.render = call.new_render,
                            !.new_render = NoSession]
    /\ UNCHANGED <<besidePath, faults>>

\* after the loop: render.stop()?; Ok(())
LoopExit ==
    /\ call.pc = "exit"
    /\ \E stop_ok \in Calls(TRUE) :
         /\ Fault(stop_ok)
         /\ call' = LoopReturned(call, IF stop_ok THEN "returned_ok" ELSE "returned_err")
    /\ UNCHANGED besidePath

InitLoop ==
    /\ InitRing
    /\ InitEngine(FALSE, FALSE, {})
    /\ budget = RecoveryFaults
    /\ hist = HistOff
    /\ call = NewLoop

LoopNext ==
    \/ LoopSetOutput
    \/ LoopStopRequested
    \/ LoopStart
    \/ LoopTop
    \/ LoopSwapStop
    \/ LoopSwapOpen
    \/ LoopFallback
    \/ LoopWrite
    \/ LoopRecoverOpen
    \/ LoopAssign
    \/ LoopExit

SpecLoop == InitLoop /\ [][LoopNext]_vars

(***************************************************************************)
(* The ring claims, checked under SpecRing.                                *)
(***************************************************************************)
\* C1 (as stated): under every interleaving of the producer's write calls and
\* the consumer's read calls, the concatenation of all read outputs is a prefix
\* of the concatenation of all write inputs.
C1_ReadsPrefixOfAllInputs == IsPrefix(readOut, AllInputs)

\* C1 (amended): under every interleaving, the concatenation of all read outputs
\* is a prefix of the concatenation of the accepted parts of the write inputs
\* (the first `returned count` elements of each call's input).
C1_ReadsPrefixOfAccepted == IsPrefix(readOut, accepted)

\* C1's case: the reads have gone round the storage and have returned a sample
\* that was accepted after a write had dropped part of its input.
C1_Witness ==
    /\ Len(readOut) > RoundedCapacity
    /\ readOut[Len(readOut)] > Len(readOut)

\* C2: in every reachable state, also in the middle of a write or a read, the
\* occupancy len() computes from the two indices lies in 0..capacity(), and
\* write_pos and read_pos lie in 0..rounded capacity - 1.
C2_OccupancyBounded ==
    /\ write_pos \in Slots
    /\ read_pos \in Slots
    /\ RingLen(write_pos, read_pos) \in 0..Capacity

\* C2's case: the ring is full with the data wrapped round the end of the
\* storage, in the middle of a read.
C2_Witness ==
    /\ c.pc = "copy"
    /\ write_pos < read_pos
    /\ RingLen(write_pos, read_pos) = Capacity

\* the read that has just returned was the first read called after a write of
\* k <= capacity() samples on an empty ring had returned, with a destination of
\* k elements, and no write was called since
C3_Case ==
    /\ c.pc = "done"
    /\ c.after # <<>>
    /\ ~c.interposed
    /\ c.after[1].empty
    /\ c.after[1].alone
    /\ c.after[1].n <= Capacity
    /\ Len(c.out) = c.after[1].n

\* C3: on an empty ring, a write of k <= capacity() samples followed, with no
\* other write interposed, by a read into k elements returns k and exactly
\* those samples in order, and leaves len() = 0 (is_empty), wherever the
\* indices stand.
C3_WriteThenReadRoundTrip ==
    C3_Case =>
        /\ c.after[1].ret = c.after[1].n
        /\ c.ret = c.after[1].n
        /\ c.out = SamplesOf(c.after[1].n, c.after[1].first)
        /\ RingLen(write_pos, read_pos) = 0
        /\ write_pos = read_pos

\* C3's case with the data wrapped round the end of the storage.
C3_Witness ==
    /\ C3_Case
    /\ c.after[1].n = Capacity
    /\ c.after[1].pos + c.after[1].n > RoundedCapacity

\* the result of the write call that has returned
C4_Result ==
    p.pc = "done" =>
        /\ p.ret = Min(p.n, Capacity - p.len0)
        /\ p.full0 => p.ret = 0
        /\ \A i \in 0..(p.ret - 1) :
              buffer[SlotIndex(p.w + i)] = SamplesOf(p.n, p.first)[i + 1]

\* a step of write changes neither read_pos nor a buffered sample
C4_Frame ==
    (WriteCall \/ ProducerStep) =>
        /\ read_pos' = read_pos
        /\ \A s \in BufferedSlots : buffer'[s] = buffer[s]

\* a write in progress can always take its next step
C4_NeverWaits == p.pc \notin {"idle", "done"} => ENABLED ProducerStep

\* C4: write(samples) returns min(len(samples), capacity() - len()), stores
\* exactly that many leading elements of samples, returns 0 on a full ring,
\* never waits for the consumer, and leaves read_pos and every buffered
\* sample unchanged.
C4_WriteContract == [](C4_Result /\ C4_NeverWaits) /\ [][C4_Frame]_vars

\* C4's case: a write that was cut short by a ring that was neither empty nor
\* full, with the data wrapped.
C4_Witness ==
    /\ p.pc = "done"
    /\ 0 < p.ret /\ p.ret < p.n
    /\ p.len0 > 0
    /\ p.w + p.ret > RoundedCapacity

\* the result of the read call that has returned
C5_Result ==
    c.pc = "done" =>
        /\ c.ret = Min(Len(c.out), c.len0)
        /\ SubSeq(c.out, 1, c.ret) = SubSeq(c.oldest, 1, c.ret)
        /\ \A j \in (c.ret + 1)..Len(c.out) : c.out[j] = 0
        /\ c.len0 = 0 => (c.ret = 0 /\ read_pos = c.r)

\* a step of read changes neither write_pos nor the storage
C5_Frame ==
    (ReadCall \/ ConsumerStep) =>
        /\ write_pos' = write_pos
        /\ buffer' = buffer

\* a read in progress can always take its next step
C5_NeverWaits == c.pc \notin {"idle", "done"} => ENABLED ConsumerStep

\* C5: read(out) returns min(len(out), len()), copies that many of the oldest
\* buffered samples into the front of out, returns 0 on an empty ring leaving
\* out and read_pos unchanged, never waits for the producer and never
\* modifies write_pos.
C5_ReadContract == [](C5_Result /\ C5_NeverWaits) /\ [][C5_Frame]_vars

\* C5's case: a read that was cut short by the ring holding fewer samples than
\* the destination, the samples wrapped round the end of the storage.
C5_Witness ==
    /\ c.pc = "done"
    /\ 0 < c.ret /\ c.ret < Len(c.out)
    /\ c.r + c.ret > RoundedCapacity

(***************************************************************************)
(* Hot-swap, delivery and cancellation.                                    *)
(***************************************************************************)
\* C6, as stated: after SetOutput{D} is acknowledged, and while the speaker
\* render worker is still running, at the end of the worker's next full
\* iteration its current_device_id is D, or the previous endpoint when
\* opening D failed and the fallback reopen succeeded.
C6_CurrentIsAcknowledged ==
    ack.phase = 3 =>
        \/ sr.cur = ack.d
        \/ sr.cur = ack.prev /\ sr.swap = "fellback" /\ ack.read = ack.d

\* C6, amended: at the end of that iteration current_device_id is the target
\* the worker read at the top of it, or the previous endpoint when opening
\* that target failed and the fallback reopen succeeded; the target read is D
\* unless a SetOutput handled after the acknowledged one stored another id.
C6_CurrentIsTargetRead ==
    ack.phase = 3 =>
        /\ \/ sr.cur = ack.read
           \/ sr.cur = ack.prev /\ sr.swap = "fellback"
        /\ ack.read = ack.d \/ ack.later

C6_Witness ==
    /\ ack.phase = 3
    /\ sr.swap = "switched"
    /\ sr.cur = ack.d
    /\ ack.prev # ack.d

\* the worker returned its error from inside the hot-swap block
ReturnedInSwap(w) == w.pc = "returned_err" /\ w.swap \in {"stop_failed", "both_failed"}

\* C7: during a hot-swap the worker returns an error only if both the opening
\* of the new endpoint and the restart of the previous endpoint failed.
C7_ErrorOnlyIfBothOpensFail ==
    ReturnedInSwap(sr) => sr.swap = "both_failed"

\* the endpoints the speaker path may use: --speaker-out and the ids SetOutput
\* has stored
Allowed == {SpeakerOut} \cup supplied

\* C8: every render write of the speaker path goes to a session opened with
\* current_device_id, current_device_id is --speaker-out or an id an earlier
\* SetOutput supplied, and no other endpoint is ever delivered samples.
C8_State ==
    /\ sr.pc = "top" => sr.session = Session(sr.cur, TRUE) /\ sr.cur \in Allowed
    /\ delivered \subseteq Allowed

C8_Write == delivered' \subseteq delivered \cup {sr'.cur}

Left(w) == IF Ended(w) THEN 0 ELSE IF w.pc = "top" THEN 1 ELSE 2

\* the steps run_proxy has left
MainLeft ==
    CASE main = "wait" -> 5
      [] main = "join_capture" -> 4
      [] main = "join_render" -> 3
      [] main = "join_mic_capture" -> 2
      [] main = "join_mic_render" -> 1
      [] main = "returned_ok" -> 0

C9_Remaining == Left(sc) + Left(sr) + Left(mc) + Left(mr) + MainLeft

\* a worker at the top of its loop that takes a step ends
LeavesLoop(w, after) == (w.pc = "top" /\ after # w) => Ended(after)

\* C9: once the run flag is false, a worker's next check at the top of its
\* loop makes it leave the loop and return; no worker and no join is held up
\* by the ring, the enable flag or another worker; every step of a worker or
\* of run_proxy brings the end nearer, and run_proxy returns Ok only after
\* all audio workers have ended.
C9_Step ==
    ~running =>
        /\ LeavesLoop(sc, sc')
        /\ LeavesLoop(sr, sr')
        /\ LeavesLoop(mc, mc')
        /\ LeavesLoop(mr, mr')
        /\ <<sc, sr, mc, mr, main>>' # <<sc, sr, mc, mr, main>>
              => C9_Remaining' < C9_Remaining

C9_NotHeld ==
    ~running =>
        /\ ~Ended(sc) => ENABLED (SpeakerCaptureNext /\ sc' # sc)
        /\ ~Ended(sr) => ENABLED (SpeakerRenderNext /\ sr' # sr)
        /\ ~Ended(mc) => ENABLED (MicCaptureNext /\ mc' # mc)
        /\ ~Ended(mr) => ENABLED (MicRenderNext /\ mr' # mr)
        /\ main = "wait" => ENABLED MainWait
        /\ main = "join_capture" /\ Ended(sc) => ENABLED MainJoinCapture
        /\ main = "join_render" /\ Ended(sr) => ENABLED MainJoinRender
        /\ main = "join_mic_capture" /\ Ended(mc) => ENABLED MainJoinMicCapture
        /\ main = "join_mic_render" /\ Ended(mr) => ENABLED MainJoinMicRender

C9_Joined ==
    main = "returned_ok" => Ended(sc) /\ Ended(sr) /\ Ended(mc) /\ Ended(mr)

\* C9 as one formula: nothing is held up, run_proxy returns after the joins,
\* and every step after the flag fell is a step towards the end
C9_Cancellation == [](C9_NotHeld /\ C9_Joined) /\ [][C9_Step]_vars

C9_Witness ==
    /\ main = "returned_ok"
    /\ ~mic_enabled
    /\ mc.pc = "returned_ok"
    /\ sr.pc = "returned_err"
    /\ spk_ring.write_pos # spk_ring.read_pos

\* C10: the run flag starts true, Stop stores false into it, and no step
\* stores true: once false it is false in every later state.
C10_Step ==
    /\ ~running => ~running'
    /\ (ipc.pc = "handle" /\ ipc.command.tag = "Stop" /\ ipc' # ipc) => ~running'

\* C10 as one formula: true at the start, and never raised by a step
C10_RunFlagOnlyFalls == (running = TRUE) /\ [][C10_Step]_vars

C10_Witness ==
    /\ ~running
    /\ ipc.pc = "returned"
    /\ ipc.command.tag = "none"
    /\ mic_enabled
    /\ main = "returned_ok"

(***************************************************************************)
(* C11 to C16: the workers' error handling, under SpecRecovery and         *)
(* SpecOverflow.                                                           *)
(***************************************************************************)
\* an iteration of worker w (before: w, after: v, its history after: h) that
\* returns the error of its read or write does so on the fifth error in a row
GivesUpAtFive(w, v, h) ==
    (w.pc = "top" /\ running /\ v.pc = "returned_err")
        => /\ v.err = MAX_RECOVERY_ATTEMPTS
           /\ w.err = MAX_RECOVERY_ATTEMPTS - 1
           /\ ~h.ok
           /\ h.recover = "gave_up"

\* an iteration that counts an earlier error opens a session on the current
\* endpoint again and stays in the loop
RetriesBeforeFive(w, v, h) ==
    (w.pc = "top" /\ v.err = w.err + 1 /\ v.err < MAX_RECOVERY_ATTEMPTS)
        => /\ v.pc = "top"
           /\ v.cur = w.cur
           /\ ~h.ok
           /\ h.recover \in {"ok", "failed"}
           /\ h.recover = "ok" => v.session = Session(w.cur, TRUE)

C11_Step ==
    /\ GivesUpAtFive(sc, sc', hist'.sc)
    /\ GivesUpAtFive(sr, sr', hist'.sr)
    /\ RetriesBeforeFive(sc, sc', hist'.sc)
    /\ RetriesBeforeFive(sr, sr', hist'.sr)

C11_Counter ==
    \A w \in {sc, sr} :
        /\ w.err \in 0..MAX_RECOVERY_ATTEMPTS
        /\ w.err = MAX_RECOVERY_ATTEMPTS => w.pc = "returned_err"

\* C11: a worker returns the error of a device read or write only when that
\* error brings its counter to MAX_RECOVERY_ATTEMPTS = 5; on an error that
\* brings the counter to 1..4 it tries to open and start a session on its
\* current endpoint and stays in its loop.
C11_GivesUpOnlyAtFive == []C11_Counter /\ [][C11_Step]_vars

C11_Witness ==
    /\ sc.pc = "returned_err" /\ sc.err = MAX_RECOVERY_ATTEMPTS
    /\ hist.sc.recover = "gave_up"
    /\ sr.pc = "top" /\ running

\* the last iteration of a worker (history h) had a call succeed
Succeeded(h) == h.op # "none" /\ (h.ok \/ h.recover = "ok")

\* C12: the counter of a worker is 0 after any iteration in which an operation
\* succeeded: a read that gave Ok (frames or none), a write that gave Ok (a
\* block or silence), or a recovery whose open and start succeeded.
C12_ResetByAnySuccess ==
    /\ Succeeded(hist.sc) => sc.err = 0
    /\ Succeeded(hist.sr) => sr.err = 0

\* C13: while the run flag is set, a failed open+start of the capture
\* session, the worker's first one included, does not end the capture worker,
\* and once an open+start has succeeded the worker is in its loop with its
\* counter at 0.
C13_SurvivesOpenFailures ==
    running =>
        /\ (hist.sc.op = "open" /\ ~hist.sc.ok) => sc.pc # "returned_err"
        /\ (hist.sc.op = "open" /\ hist.sc.ok) => sc.pc = "top" /\ sc.err = 0
        /\ hist.sc.recover = "failed" => sc.pc = "top"
        /\ hist.sc.recover = "ok" => sc.pc = "top" /\ sc.err = 0

\* worker w (after the step: v) returns an error in this step
Errors(w, v) == w.pc # "returned_err" /\ v.pc = "returned_err"

\* worker w (after the step: v) leaves its loop with the loop's condition false
Leaves(w, v) == w.pc = "top" /\ v.pc \notin {"top", "returned_err"}

\* the step of a worker that returns an error changes neither the run flag nor
\* the other path nor the dispatcher; the run flag falls by Stop or by the
\* interrupt alone; a worker or the dispatcher leaves its loop otherwise only
\* with the run flag false
C14_Step ==
    /\ (Errors(sc, sc') \/ Errors(sr, sr'))
            => running' = running /\ mr' = mr /\ mc' = mc /\ ipc' = ipc
    /\ (Errors(mr, mr') \/ Errors(mc, mc'))
            => running' = running /\ sc' = sc /\ sr' = sr /\ ipc' = ipc
    /\ (running /\ ~running')
            => \/ ipc.pc = "handle" /\ ipc.command.tag = "Stop" /\ ipc'.pc = "send"
               \/ UNCHANGED <<ipc, sc, sr, mc, mr, spk_ring, mic_ring, faults>>
    /\ \A pair \in {<<sc, sc'>>, <<sr, sr'>>, <<mr, mr'>>} :
            Leaves(pair[1], pair[2]) => ~running
    /\ (ipc.pc # "returned" /\ ipc'.pc = "returned") => ~running

\* with the run flag set, a worker in its loop can take its next iteration and
\* the dispatcher its next step, whatever has become of the other path
C14_Alive ==
    running =>
        /\ sc.pc = "top" => ENABLED SpeakerCaptureNext
        /\ sr.pc = "top" => ENABLED SpeakerRenderNext
        /\ mr.pc = "top" => ENABLED MicRenderNext
        /\ ipc.pc # "returned" /\ ENABLED IpcNext

\* C14: when a worker of one path returns an error, the run flag stays as it
\* is and the workers of the other path and the dispatcher go on; the run
\* flag falls, and they leave their loops, only by a Stop command or an
\* interrupt.
C14_OtherPathKeepsRunning == []C14_Alive /\ [][C14_Step]_vars

C14_Witness ==
    /\ running
    /\ sc.pc = "returned_err" /\ sc.err = MAX_RECOVERY_ATTEMPTS
    /\ mr.pc = "top" /\ ~mic_enabled
    /\ sr.pc = "top"
    /\ ipc.pc = "send"

\* the speaker ring holds no sample
SpeakerRingEmpty == RingLen(spk_ring.write_pos, spk_ring.read_pos) = 0

\* an iteration of the render worker on an empty ring writes 1 ms of zeros and
\* leaves the worker, its counter and the ring as they were, whether the write
\* succeeded or not
C15_Step ==
    (sr.pc = "top" /\ running /\ SpeakerRingEmpty)
        => /\ sr' = sr
           /\ hist'.sr # hist.sr =>
                /\ hist'.sr.op = "silence"
                /\ hist'.sr.count = 0
                /\ hist'.sr.recover = "none"
                /\ Len(hist'.sr.block) = (DEFAULT_SAMPLE_RATE \div 1000) * DEFAULT_CHANNELS
                /\ \A i \in 1..Len(hist'.sr.block) : hist'.sr.block[i] = 0
                /\ spk_ring' = spk_ring

\* silence is what was written exactly when the ring gave nothing, and the
\* worker's next iteration never waits for the ring to fill
C15_State ==
    /\ hist.sr.op = "silence" <=> (hist.sr.op \in {"write", "silence"} /\ hist.sr.count = 0)
    /\ (hist.sr.op = "silence" /\ running) => sr.pc = "top"
    /\ (sr.pc = "top" /\ running) => ENABLED SrIteration

\* C15: whenever the render worker's ring read returns 0 samples it writes one
\* block of (rate / 1000) * channels zeros and loops again without waiting for
\* the producer; a failed silence write neither counts as an error nor ends
\* the worker.
C15_SilenceOnUnderrun == []C15_State /\ [][C15_Step]_vars

C15_Witness ==
    /\ running /\ sr.pc = "top" /\ sr.err = 1
    /\ hist.sr.op = "silence" /\ ~hist.sr.ok
    /\ SpeakerRingEmpty

\* the samples of a sequence
Range(seq) == {seq[i] : i \in 1..Len(seq)}

\* a capture iteration that read samples: the ring takes as many leading ones
\* as it has room for behind what it holds, the rest is lost, the counter is 0
\* and the worker is in its loop
C16_Step ==
    hist'.fed # hist.fed =>
        LET h == hist'.sc
            room == WriteAvailable(spk_ring.write_pos, spk_ring.read_pos)
        IN /\ h.op = "read" /\ h.ok /\ Len(h.block) > 0
           /\ h.count = Min(Len(h.block), room)
           /\ Held(spk_ring') = Held(spk_ring) \o SubSeq(h.block, 1, h.count)
           /\ hist'.lost = hist.lost \cup {h.block[i] : i \in (h.count + 1)..Len(h.block)}
           /\ sc'.err = 0
           /\ sc'.pc = "top"

\* a lost sample is neither in the ring nor in the block the render worker
\* wrote last, and the ring holds its samples in the order they were captured
C16_State ==
    /\ Range(Held(spk_ring)) \cap hist.lost = {}
    /\ hist.sr.op = "write" => Range(hist.sr.block) \cap hist.lost = {}
    /\ \A i, j \in 1..Len(Held(spk_ring)) :
            i < j => Held(spk_ring)[i] < Held(spk_ring)[j]

\* C16: when the capture worker has read n samples and the ring takes only
\* w < n of them, the n - w trailing samples are dropped and never written
\* later, what the ring held is not overwritten, the counter is 0 and the
\* worker stays in its loop.
C16_DropNewest == []C16_State /\ [][C16_Step]_vars

C16_Witness ==
    /\ running /\ sc.pc = "top" /\ sc.err = 0
    /\ hist.sc.op = "read" /\ Len(hist.sc.block) = 2 /\ hist.sc.count = 1
    /\ hist.sc.block[2] \in hist.lost
    /\ Len(Held(spk_ring)) = Capacity

(***************************************************************************)
(* C17: the mic path disabled, under SpecMute.                             *)
(***************************************************************************)
\* a block of zeros (or no block)
AllZeros(block) == \A i \in 1..Len(block) : block[i] = 0

\* C17 as stated: after EnableMic{false} is acknowledged, every block the mic
\* render worker writes is all zeros, until an EnableMic{true} is handled.
C17_OnlyZerosAfterDisable == hist.muted => AllZeros(hist.mr.block)

\* while muted the flag is false, the worker is past the flag only in an
\* iteration that loaded it before the store, and that iteration is over once
\* it has written its block
C17_State ==
    hist.muted =>
        /\ ~mic_enabled
        /\ mr.pc = "enabled" => hist.inflight
        /\ ~AllZeros(hist.mr.block) => ~hist.inflight /\ mr.pc # "enabled"

\* a block written while muted is zeros, unless it is the block of that one
\* iteration
C17_Write ==
    (hist.muted /\ hist'.muted /\ hist'.mr # hist.mr /\ ~AllZeros(hist'.mr.block))
        => hist.inflight /\ ~hist'.inflight /\ mr.pc = "enabled"

\* C17, amended: after EnableMic{false} is acknowledged and until an
\* EnableMic{true} is handled, every block the mic render worker writes is all
\* zeros, except at most one: the block of the iteration that had loaded the
\* enabled flag before the command stored false.
C17_ZerosButForOneInFlight == []C17_State /\ [][C17_Write]_vars

C17_Witness ==
    /\ hist.muted /\ ~mic_enabled /\ running
    /\ hist.mr.op = "write" /\ hist.mr.ok /\ ~AllZeros(hist.mr.block)
    /\ mr.pc = "top"

(***************************************************************************)
(* C18 to C20: the control channel, under SpecSwap.                        *)
(***************************************************************************)
\* C18: the server disconnects before it reads again, so that no connection
\* has a second request read from it: whenever the dispatcher is back at the
\* top of its loop, or about to accept, no client is connected.
C18_OneRequestPerConnection ==
    ipc.pc \in {"top", "accept"} => ~ipc.connected

\* accept_with_timeout returns the error of a request that did not parse
ParseError == ipc.pc = "read" /\ ipc'.pc = "top" /\ faults' = faults

\* C19: when a request does not parse as a command, the server closes that
\* connection and changes none of the shared control variables.
C19_ParseErrorClosesConnection ==
    [][ParseError => ~ipc'.connected /\ UNCHANGED controlVars]_vars

\* C20: with no client connected, accept returns after its timeout, without a
\* client connecting and without an error of the pipe, so that the dispatcher
\* gets back to the test of the run flag.
C20_AcceptTimesOut ==
    (ipc.pc = "accept" /\ ~ipc.connected)
        => ENABLED (IpcConnect /\ ~ipc'.connected /\ faults' = faults)


(***************************************************************************)
(* C21 to C23: the commands; C21 under SpecSpeaker, C22 and C23 under      *)
(* SpecControl.                                                            *)
(***************************************************************************)
\* handle_ipc_command is given the command `tag` and returns its response
Handles(tag) == ipc.pc = "handle" /\ ipc.command.tag = tag /\ ipc'.pc = "send"

C21_Step ==
    Handles("SetOutput") =>
        /\ output_id' = ipc.command.device_id
        /\ ipc'.response = ResponseSuccess("Output device updated")
        /\ UNCHANGED <<running, mic_configured, mic_input_id, mic_enabled,
                       spk_ring, mic_ring, sc, sr, mc, mr, faults>>

\* the handler of a SetOutput can run whatever the render worker is doing
C21_NoWait ==
    (ipc.pc = "handle" /\ ipc.command.tag = "SetOutput") => ENABLED IpcHandle

\* C21: SetOutput{D} overwrites the speaker render target with D, whatever D
\* is (no host call is made for it) and without waiting for the render worker
\* (which it leaves as it is), replies success, and leaves the run flag, the
\* mic capture target, the mic-enabled flag and both rings unchanged.
C21_SetOutputOverwrites == []C21_NoWait /\ [][C21_Step]_vars

\* SetOutput{headset} has its reply of success ready while the render worker is
\* still streaming to the previous endpoint
C21_Witness ==
    /\ ipc.pc = "send" /\ ipc.command.tag = "SetOutput"
    /\ ipc.response = ResponseSuccess("Output device updated")
    /\ output_id = "headset" /\ ipc.command.device_id = "headset"
    /\ sr.pc = "top" /\ sr.cur = "speakers" /\ sr.session = Session("speakers", TRUE)

\* what a command of the mic path leaves alone, whatever it does
MicCommandFrame ==
    UNCHANGED <<running, output_id, mic_configured, spk_ring, mic_ring,
                sc, sr, mc, mr, faults>>

C22_SetMicInput ==
    Handles("SetMicInput") =>
        /\ MicCommandFrame
        /\ mic_enabled' = mic_enabled
        /\ IF mic_configured
           THEN /\ mic_input_id' = ipc.command.device_id
                /\ ipc'.response = ResponseSuccess("Mic input device updated")
           ELSE /\ mic_input_id' = mic_input_id
                /\ ipc'.response.success = FALSE

C22_EnableMic ==
    Handles("EnableMic") =>
        /\ MicCommandFrame
        /\ mic_input_id' = mic_input_id
        /\ IF mic_configured
           THEN /\ mic_enabled' = ipc.command.enabled
                /\ ipc'.response.success = TRUE
           ELSE /\ mic_enabled' = mic_enabled
                /\ ipc'.response.success = FALSE

\* C22: when the mic path is not configured, SetMicInput and EnableMic reply
\* with success = false and change no state; when it is configured, SetMicInput
\* overwrites the mic capture target and EnableMic sets the mic-enabled flag,
\* each replying success and changing nothing else.
C22_MicCommands == [][C22_SetMicInput /\ C22_EnableMic]_vars

\* without the mic path, SetMicInput{headset} has its reply of failure ready
\* and the target is what it was
C22_Witness ==
    /\ ~mic_configured
    /\ ipc.pc = "send" /\ ipc.command.tag = "SetMicInput"
    /\ ipc.command.device_id = "headset"
    /\ ipc.response = ResponseError("Mic proxy not configured")
    /\ mic_input_id = MicIn

\* the status-only fields of a response
StatusFields(response) ==
    <<response.running, response.output_device, response.mic_enabled,
      response.mic_input_device>>

C23_GetStatus ==
    Handles("GetStatus") =>
        /\ ipc'.response.success = TRUE
        /\ StatusFields(ipc'.response) =
              IF mic_configured
              THEN <<running, output_id, mic_enabled, mic_input_id>>
              ELSE <<running, output_id, None, None>>
        /\ UNCHANGED <<controlVars, spk_ring, mic_ring, sc, sr, mc, mr, faults>>

C23_Others ==
    \A tag \in Tags \ {"GetStatus"} :
        Handles(tag) => StatusFields(ipc'.response) = <<None, None, None, None>>

\* C23: GetStatus replies with running = the run flag and output_device = the
\* speaker render target as last written, whether or not the render worker has
\* that endpoint open, plus mic_enabled and mic_input_device exactly when the
\* mic path is configured; it changes no state; and the replies to all other
\* commands carry none of these four fields.
C23_StatusReply == [][C23_GetStatus /\ C23_Others]_vars

\* the reply reports the requested target `headset` while the render worker has
\* the session on `speakers` open
C23_Witness ==
    /\ mic_configured
    /\ ipc.pc = "send" /\ ipc.command.tag = "GetStatus"
    /\ ipc.response = ResponseStatusFull(running, "headset", mic_enabled, MicIn)
    /\ output_id = "headset"
    /\ sr.pc = "top" /\ sr.session = Session("speakers", TRUE)

C24_State ==
    hist.open = hist.leaked + (IF sr.pc = "top" THEN 1 ELSE 0)

\* a session is released unstopped only in a step in which a host call failed
C24_Leak == hist.leaked' # hist.leaked => faults' > faults

AllReadable(collection) ==
    \A i \in 1..Len(collection) :
        collection[i].ok /\ collection[i].id_ok /\ collection[i].name_ok

\* the first of the places `hits`, 0 if there is none
FirstMatch(hits) ==
    IF hits = {} THEN 0 ELSE CHOOSE i \in hits : \A j \in hits : i <= j

\* two strings are equal ignoring case
EqIgnoreCase(a, b) == ToLowercase(a) = ToLowercase(b)

\* the device resolve(id, direction) is to return: the first whose id equals
\* id; only if there is none, the first whose name equals id ignoring case;
\* only if there is none, the first whose name contains id ignoring case
Resolved(id, collection) ==
    LET Items(Matches(_)) == {i \in 1..Len(collection) : Matches(collection[i])}
        by_id == FirstMatch(Items(LAMBDA d : d.id = id))
        by_name == FirstMatch(Items(LAMBDA d : EqIgnoreCase(d.name, id)))
        by_part == FirstMatch(Items(LAMBDA d : Contains(ToLowercase(d.name),
                                                        ToLowercase(id))))
    IN IF by_id # 0 THEN by_id ELSE IF by_name # 0 THEN by_name ELSE by_part

\* C25: resolve(id, direction) returns the first device in enumeration order
\* whose device id equals id; only if there is none, the first whose friendly
\* name equals id ignoring case; only if there is none, the first whose
\* friendly name contains id ignoring case; otherwise it fails.
C25_ResolverPrecedence ==
    (call.fn = "find_device_by_id" /\ call.returned /\ AllReadable(call.collection))
        => IF Resolved(call.device_id, call.collection) = 0
           THEN call.result.kind = "not_found"
           ELSE call.result = [kind |-> "found",
                               index |-> Resolved(call.device_id, call.collection)]

(***************************************************************************)
(* C26: the sample width, under SpecStream.                                *)
(***************************************************************************)
\* a stream is started only with a format, and that 32 bits wide
C26_Started ==
    call.started => call.format # NoFormat /\ call.format.bits_per_sample = 32

\* a stream whose endpoint has reported no width of 32 bits is not started and
\* has no format, and its read or write has failed
C26_Other ==
    ~call.seen32 =>
        /\ ~call.started
        /\ call.format = NoFormat
        /\ call.result.op \in {"read", "write"} => ~call.result.ok

\* a start that is told a width other than 32 bits returns an error and
\* leaves the format and the started flag as they were
C26_Start ==
    (/\ ~call.started
     /\ call'.result.op = "start"
     /\ call'.reported # call.reported \/ call'.result.err = "unsupported"
     /\ call'.reported.bits_per_sample # 32)
        => /\ call'.result = Failed("start", "unsupported")
           /\ ~call'.started
           /\ call'.format = call.format

\* C26: a capture or render stream whose endpoint reports a sample width other
\* than 32 bits never becomes started: start returns an error, the format
\* stays absent and the started flag false, so that a later read or write on
\* it fails; a stream is started only with a format present and 32 bits wide.
C26_OnlyThirtyTwoBits == [](C26_Started /\ C26_Other) /\ [][C26_Start]_vars

\* the endpoint reported 16 bits to start, and the read after it failed
C26_Witness ==
    /\ call.direction = "capture"
    /\ call.reported.bits_per_sample = 16 /\ ~call.seen32
    /\ call.result = Failed("read", "no client")
    /\ ~call.started /\ call.format = NoFormat

(***************************************************************************)
(* The converter claims, checked under SpecResample and SpecChannels.      *)
(***************************************************************************)
\* the call of resample has returned
Resampled == call.fn = "resample" /\ call.returned

\* the least integer not below n / d, in integers
CeilDiv(n, d) == (n + d - 1) \div d

\* C27: resample produces exactly ceil(in_frames x out_rate / in_rate) output
\* frames, each of `channels` samples, for all positive rates and all
\* in_frames >= 1, where in_frames = floor(len(input) / channels); for
\* in_frames = 0 the output is empty.
C27_ResampleLength ==
    Resampled =>
        LET in_frames == Len(call.input) \div call.channels
        IN  Len(call.output)
              = CeilDiv(in_frames * call.out_rate, call.in_rate) * call.channels

\* two blocks are equal sample by sample, as f32 are equal
SameSamples(a, b) ==
    Len(a) = Len(b) /\ \A i \in 1..Len(a) : F32Eq(a[i], b[i])

\* the whole frames of a block
WholeFrames(input, channels) ==
    SubSeq(input, 1, (Len(input) \div channels) * channels)

\* every sample of the whole frames is finite and differs by a finite amount
\* from the sample of its channel in the next frame
FiniteSteps(input, channels) ==
    LET last == Len(WholeFrames(input, channels))
    IN  \A i \in 1..last :
          F32Sub(input[IF i + channels <= last THEN i + channels ELSE i],
                 input[i]).class \in {"finite", "max"}

\* C28 (as stated): resample(x, R, R, C, s) leaves s equal to x for every
\* input x, every positive rate R and every channel count C >= 1, whatever s
\* held before the call.
C28_ResampleIdentity ==
    Resampled /\ call.in_rate = call.out_rate
        => SameSamples(call.output, call.input)

\* C28 (amended): resample(x, R, R, C, s) leaves s equal to the whole frames
\* of x, so to x when len(x) is a multiple of C, whatever s held before the
\* call, provided every sample of x is finite and differs by a finite amount
\* from the sample of its channel in the next frame.
C28_IdentityOnWholeFrames ==
    Resampled /\ call.in_rate = call.out_rate
              /\ FiniteSteps(call.input, call.channels)
        => SameSamples(call.output, WholeFrames(call.input, call.channels))

\* two frames of two channels have come back as they were, in place of what
\* the output held
C28_Witness ==
    /\ Resampled
    /\ call.in_rate = call.out_rate
    /\ call.channels = 2
    /\ Len(call.input) = 4
    /\ call.held # <<>>
    /\ FiniteSteps(call.input, call.channels)
    /\ call.output = call.input

\* the call of convert_channels has returned
Converted == call.fn = "convert_channels" /\ call.returned

\* (l + r) x 0.5, in integers where both samples are finite
Mean(l, r) ==
    IF l.class = "finite" /\ r.class = "finite" /\ (l.v + r.v) % 2 = 0
    THEN Finite((l.v + r.v) \div 2)
    ELSE F32Half(F32Add(l, r))

\* the frame of out_ch samples that the statement gives for a frame of in_ch
OutFrame(frame, out_ch) ==
    LET in_ch == Len(frame)
    IN  IF out_ch = in_ch THEN frame
        ELSE IF out_ch < in_ch
             THEN IF in_ch = 2 THEN <<Mean(frame[1], frame[2])>>
                  ELSE SubSeq(frame, 1, out_ch)
        ELSE frame \o [ch \in 1..(out_ch - in_ch) |-> frame[1]]

\* the output holds so many frames of out_ch samples, each the one the
\* statement gives for the input frame of its number
FrameByFrame(input, in_ch, out_ch, output) ==
    /\ Len(output) = (Len(input) \div in_ch) * out_ch
    /\ \A f \in 1..(Len(input) \div in_ch) :
         SubSeq(output, (f - 1) * out_ch + 1, f * out_ch)
           = OutFrame(SubSeq(input, (f - 1) * in_ch + 1, f * in_ch), out_ch)

\* C29 (as stated): convert_channels(in, in_ch, out_ch, s) replaces s by
\* floor(len(in)/in_ch) frames of out_ch samples: for out_ch == in_ch the frame
\* is copied unchanged (so convert_channels(x, 2, 2, s) leaves s == x for
\* every x), for out_ch < in_ch it keeps the first out_ch channels except
\* stereo to mono which is (L + R) x 0.5, and for out_ch > in_ch it copies the
\* in_ch channels and fills the remaining ones with channel 0; the result does
\* not depend on what s held before.
C29_ConvertChannels ==
    Converted =>
        /\ FrameByFrame(call.input, call.in_ch, call.out_ch, call.output)
        /\ call.in_ch = 2 /\ call.out_ch = 2 => call.output = call.input

\* C29 (amended): the same, with convert_channels(x, 2, 2, s) leaving s equal
\* to the whole frames of x: to x when len(x) is even, to x without its last
\* sample when it is odd.
C29_ConvertsFrameByFrame ==
    Converted =>
        /\ FrameByFrame(call.input, call.in_ch, call.out_ch, call.output)
        /\ call.in_ch = 2 /\ call.out_ch = 2
             => call.output = WholeFrames(call.input, 2)

\* two stereo frames and a sample of a third have become two mono samples,
\* the means of the pairs, in place of what the output held
C29_Witness ==
    /\ Converted
    /\ call.in_ch = 2 /\ call.out_ch = 1
    /\ call.input = Ramp(5)
    /\ call.held # <<>>
    /\ call.output = <<Finite(3), Finite(7)>>

(***************************************************************************)
(* The ring's order, checked under SpecRing.                               *)
(***************************************************************************)
\* the accepted samples that no read has returned yet
Unread == SubSeq(accepted, Len(readOut) + 1, Len(accepted))

\* C30: every sample accepted by write (the first `returned count` elements of
\* each call's input) is returned by read exactly once and in acceptance
\* order, under any interleaving of the one producer and the one consumer:
\* what read has returned is the accepted samples from the first on, none
\* twice, none skipped and none that was not accepted, and the accepted
\* samples not yet returned are the ones the ring holds, oldest first, for the
\* reads to come.
C30_ExactlyOnceInOrder ==
    /\ IsPrefix(readOut, accepted)
    /\ \A i, j \in 1..Len(readOut) : i < j => readOut[i] # readOut[j]
    /\ Buffered = Unread

\* C30's case: a write is storing and a read is copying at the same time,
\* after a write has dropped part of its input and reads have returned
\* samples, with the accepted samples that wait in the ring lying across the
\* end of the storage.
C30_Witness ==
    /\ p.pc = "store"
    /\ c.pc = "copy"
    /\ Len(accepted) < p.first - 1
    /\ readOut # <<>>
    /\ write_pos < read_pos

(***************************************************************************)
(* The order of the slot accesses and the index stores, checked under      *)
(* SpecRing.                                                               *)
(***************************************************************************)
\* the slots the write call in progress stores into, and the ones it has
\* still to store
WriteSlots == {SlotIndex(p.w + j) : j \in 0..(p.to_write - 1)}
WriteSlotsLeft == {SlotIndex(p.w + j) : j \in p.i..(p.to_write - 1)}

\* the slots the read call in progress loads from, and the ones it has still
\* to load
ReadSlots == {SlotIndex(c.r + j) : j \in 0..(c.to_read - 1)}
ReadSlotsLeft == {SlotIndex(c.r + j) : j \in c.i..(c.to_read - 1)}

\* write stores the new write_pos after the last of its slot stores, read the
\* new read_pos after the last of its slot loads
IndexStoredLast ==
    /\ write_pos' # write_pos => p.pc = "publish" /\ p.i = p.to_write /\ p.to_write > 0
    /\ read_pos' # read_pos => c.pc = "publish" /\ c.i = c.to_read /\ c.to_read > 0
    /\ buffer' # buffer => p.pc = "store" /\ write_pos' = write_pos

\* the consumer loads only slots whose write has completed: each slot it has
\* still to load is published and holds the accepted sample that is due
LoadsCompletedWrites ==
    c.pc = "copy" =>
        /\ ReadSlotsLeft \subseteq BufferedSlots
        /\ \A j \in c.i..(c.to_read - 1) :
               /\ Len(readOut) + j + 1 <= Len(accepted)
               /\ buffer[SlotIndex(c.r + j)] = accepted[Len(readOut) + j + 1]

\* the producer stores only into slots whose read has completed: no slot it has
\* still to store holds a sample that the consumer has not released
OverwritesCompletedReads ==
    p.pc = "store" => WriteSlotsLeft \cap BufferedSlots = {}

\* no slot is in a write call and in a read call at the same time
NoSlotShared ==
    (p.pc \in {"store", "publish"} /\ c.pc \in {"copy", "publish"}) =>
        WriteSlots \cap ReadSlots = {}

\* C31: in write every slot store precedes the store of the new write_pos and
\* in read every slot load precedes the store of the new read_pos; hence the
\* consumer only loads slots whose write has completed, the producer only
\* overwrites slots whose read has completed, and no slot is written by the
\* producer while the consumer is reading it.
C31_SlotsBeforeIndex ==
    /\ [][IndexStoredLast]_vars
    /\ [](LoadsCompletedWrites /\ OverwritesCompletedReads /\ NoSlotShared)

\* C31's case: a write call and a read call overlap in time, the producer
\* about to store a slot and the consumer between two slot loads, the ring
\* holding samples across the end of its storage after earlier reads.
C31_Witness ==
    /\ p.pc = "store"
    /\ c.pc = "copy" /\ c.i > 0
    /\ readOut # <<>>
    /\ write_pos < read_pos

(***************************************************************************)
(* The capture-format snapshot, checked under SpecMicPath.                 *)
(***************************************************************************)
\* the capture worker holds a session it reads from
Capturing == call.capture.pc = "top"

\* the snapshot is the format of the session the capture worker reads from
SnapshotOfSession == Capturing => call.capture_format = call.capture_fmt

\* the snapshot is present whenever the ring holds samples, and whenever the
\* consumer has taken a block of n > 0 samples
SnapshotPresent ==
    /\ Held(call.buffer) # <<>> => call.capture_format # NoFormat
    /\ call.taken.block # <<>> => call.taken.cf # NoFormat

\* a step of the capture worker that ends with the session of the first open,
\* of a recovery or of a hot-swap to the new endpoint leaves the snapshot at
\* that session's format
ListedStartsPublish ==
    (/\ call'.capture.pc = "top"
     /\ \/ call.capture.pc = "spawned"
        \/ call'.capture.swap = "switched"
        \/ call'.capture.err > call.capture.err /\ call'.capture_fmt # call.capture_fmt)
    => call'.capture_format = call'.capture_fmt

C32_ListedStarts == [][ListedStartsPublish]_vars

\* C32: after every successful capture open+start (the first, a recovery, a
\* mic hot-swap) the capture-format snapshot is that session's format before
\* any sample of the session is written to the ring; so the snapshot is
\* present whenever the ring holds samples, and the consumer never handles a
\* block of n > 0 samples with the snapshot absent.
C32_SnapshotSetBeforeSamples ==
    /\ SnapshotOfSession
    /\ SnapshotPresent

\* C32's case: the hot-swap block has restarted the session on the previous
\* endpoint, and samples of that session are in the ring
C32_Fallback ==
    /\ Capturing
    /\ call.capture.swap = "fellback"
    /\ Held(call.buffer) # <<>>
    /\ \A i \in 1..Len(Held(call.buffer)) :
         ChannelsOf(Held(call.buffer)[i]) = call.capture_fmt.channels

(***************************************************************************)
(* The byte counts, checked under SpecBytes.                               *)
(***************************************************************************)
\* the session's frame size: channels x 4
FrameSize == call.format.channels * 4

SwapTried(w) == w.swap \in {"switched", "fellback", "stop_failed", "both_failed"}

\* an enabled iteration of the capture worker that finds the target different
\* from its current endpoint enters the hot-swap block, whatever the
\* iterations before did; when the open fails and the fallback succeeds the
\* worker holds a started session on the endpoint it had, which the target
\* still differs from; and when nothing else failed in the iteration the
\* worker goes on with its error counter not above what it was
SwapTriedAgain ==
    (PathCaptureIteration /\ call.mic_input_id # call.capture.cur) =>
        /\ SwapTried(call'.capture)
        /\ call'.capture.swap = "switched" =>
              call'.capture.cur = call.mic_input_id
        /\ call'.capture.swap = "fellback" =>
              /\ call'.capture.cur = call.capture.cur
              /\ call'.mic_input_id # call'.capture.cur
              /\ call'.capture.session = Session(call.capture.cur, TRUE)
              /\ faults' = faults + 1 =>
                    /\ call'.capture.pc = "top"
                    /\ call'.capture.err <= call.capture.err

\* C34: after a failed hot-swap whose fallback succeeded the worker's current
\* endpoint stays different from the target, so every following iteration
\* stops the session again, tries the new endpoint and falls back, until the
\* open succeeds or the target is set back; these swap failures never add to
\* the error counter and never by themselves make the worker return.
C34_SwapRetried == [][SwapTriedAgain]_vars

\* C34's case: two iterations of the capture worker have failed to open the
\* target and fallen back, nothing else having failed, and the worker is at
\* the top of its loop with its error counter at 0
C34_Witness ==
    /\ call.fn = "path"
    /\ call.capture.pc = "top"
    /\ call.capture.swap = "fellback"
    /\ call.capture.err = 0
    /\ call.mic_input_id # call.capture.cur
    /\ call.render.pc = "spawned"
    /\ Held(call.buffer) = <<>>
    /\ faults = 2

(***************************************************************************)
(* The block of a render iteration, checked under SpecMicRender.           *)
(***************************************************************************)
\* the samples the ring of the path holds, oldest first
PathHeld == Held(call.buffer)

\* the samples an iteration of the render worker takes from the ring
NextBlock == SubSeq(PathHeld, 1, Min(Len(PathHeld), TempLen))

\* an iteration of the render worker removes its block from the ring whatever
\* the write returns, passes it to one write, and counts an error only for Err
TakenOnce ==
    (PathRenderIteration /\ NextBlock # <<>>) =>
        /\ Held(call'.buffer) = SubSeq(PathHeld, Len(NextBlock) + 1, Len(PathHeld))
        /\ call'.taken.block = NextBlock
        /\ call'.taken.ret <= call'.taken.offered
        /\ call'.taken.ret # WriteErr =>
              /\ call'.render.err = 0
              /\ call'.render.pc = "top"
              /\ faults' = faults
        /\ call'.taken.ret = WriteErr =>
              call'.render.err = call.render.err + 1

\* the ring changes at its ends only: samples leave at the head, samples
\* arrive at the tail, and none comes back
NothingReturned ==
    LET before == PathHeld
        after == Held(call'.buffer)
    IN \/ IsPrefix(before, after)
       \/ \E n \in 1..Len(before) : after = SubSeq(before, n + 1, Len(before))

\* C35: a block the render worker has removed from the ring is offered to the
\* device at most once: when the device accepts fewer frames than provided
\* (0 included) or the write fails, the samples not accepted are discarded,
\* neither retried nor returned to the ring, and a short write counts as
\* success for the error counter.
C35_OfferedOnce == [][TakenOnce /\ NothingReturned]_vars

\* C35's case: the device took none of a block of whole frames, the block is
\* gone from the ring, which the capture worker has not written to since, and
\* the render worker goes on with its error counter at 0
C35_Witness ==
    /\ call.fn = "path"
    /\ call.taken.block # <<>>
    /\ call.taken.offered >= call.render_fmt.channels
    /\ call.taken.ret = 0
    /\ call.render.pc = "top"
    /\ call.render.err = 0
    /\ PathHeld = <<>>


(***************************************************************************)
(* C36 and C37: the mic path disabled, under SpecGate.                     *)
(***************************************************************************)
\* C36 as stated: while the mic path is disabled (an EnableMic{false} has been
\* acknowledged and no EnableMic{true} handled since) neither mic worker reads
\* or writes the ring: its contents and indices are unchanged.
C36_RingUntouchedWhileDisabled ==
    [][(hist.muted /\ hist'.muted) => mic_ring' = mic_ring]_vars

\* a worker ends the iteration in which it had found the mic enabled
EndsEnabledIteration(w, after) == w.pc = "enabled" /\ after.pc # "enabled"

\* while the flag is false the ring changes only in the step that ends an
\* iteration which had loaded the flag as true, and no worker begins such an
\* iteration
InFlightOnly ==
    /\ (~mic_enabled /\ ~mic_enabled' /\ mic_ring' # mic_ring)
         => EndsEnabledIteration(mc, mc') \/ EndsEnabledIteration(mr, mr')
    /\ ~mic_enabled => /\ mc'.pc = "enabled" => mc.pc = "enabled"
                       /\ mr'.pc = "enabled" => mr.pc = "enabled"

\* the samples in the ring are in the order of their capture
RingInCaptureOrder ==
    LET held == Held(mic_ring)
    IN  /\ \A i \in 1..Len(held) : held[i] <= hist.fed
        /\ \A i, j \in 1..Len(held) : i < j => held[i] < held[j]

\* a block the render worker takes is in the order of its capture, and older
\* than every sample then in the ring
RenderedInCaptureOrder ==
    (hist'.mr # hist.mr /\ hist'.mr.op = "write") =>
        LET block == hist'.mr.block
            held == Held(mic_ring')
        IN  /\ \A i, j \in 1..Len(block) : i < j => block[i] < block[j]
            /\ \A i \in 1..Len(block) : \A j \in 1..Len(held) : block[i] < held[j]

\* C36, amended: while the mic path is disabled the ring is read or written
\* only by an iteration that had loaded the enabled flag before the command
\* stored false, at most one per worker; the samples are rendered in the order
\* of their capture, those captured before the disable before any captured
\* after the enable.
C36_RingUntouchedButInFlight ==
    [][InFlightOnly /\ RenderedInCaptureOrder]_vars /\ []RingInCaptureOrder

\* the mic disabled and acknowledged, both workers back at the top, the render
\* worker's block taken since, samples of before the disable still in the ring
C36_Witness ==
    /\ hist.muted /\ ~mic_enabled /\ running
    /\ mc.pc = "top" /\ mr.pc = "top"
    /\ hist.mr.op = "write" /\ hist.mr.block # <<>>
    /\ Held(mic_ring) # <<>>

\* C37 as stated: once a SetMicInput has been handled with the mic path
\* disabled, and for as long as the path stays disabled, the capture worker
\* performs no hot-swap (stops and opens no session).
C37_NoSwapWhileDisabled ==
    [][(hist.retarget = "pending" /\ ~mic_enabled /\ ~mic_enabled')
          => ~(EndsEnabledIteration(mc, mc') /\ SwapTried(mc'))]_vars

\* while the flag is false and the proxy runs, the capture worker's session is
\* touched only by the iteration that had loaded the flag as true, and the
\* worker begins no such iteration
SwapInFlightOnly ==
    /\ (~mic_enabled /\ ~mic_enabled' /\ running /\ mc.pc # "spawned" /\ mc' # mc)
         => EndsEnabledIteration(mc, mc')
    /\ (~mic_enabled /\ mc'.pc = "enabled") => mc.pc = "enabled"

\* an iteration that found the mic enabled compares the target of that moment
\* with its endpoint: it swaps when they differ, to that target, and not
\* otherwise
SwapToCurrentTarget ==
    EndsEnabledIteration(mc, mc') =>
        /\ mic_input_id # mc.cur => SwapTried(mc')
        /\ mic_input_id = mc.cur => mc'.swap = "none"
        /\ mc'.swap = "switched" =>
              /\ mc'.cur = mic_input_id
              /\ mc'.session = Session(mic_input_id, TRUE) \/ mc'.pc # "top"

\* C37, amended: a SetMicInput handled while the mic path is disabled causes
\* no session to be stopped or opened while the path stays disabled, unless
\* the capture worker is in an iteration that had loaded the enabled flag
\* before the command stored false; the swap is performed in the first
\* capture iteration that finds the path enabled, to the target it reads then.
C37_SwapWhenEnabled == [][SwapInFlightOnly /\ SwapToCurrentTarget]_vars

\* the target was set while the mic was disabled, the mic enabled again, and
\* the capture iteration that ended last has switched to the target
C37_Witness ==
    /\ hist.retarget = "done" /\ mic_enabled /\ running
    /\ mc.pc = "top" /\ mc.swap = "switched"
    /\ mc.cur = mic_input_id /\ mc.cur # MicIn

(***************************************************************************)
(* C38: the sessions a worker holds, under SpecLoop.                       *)
(***************************************************************************)
\* C38: a worker never holds two started sessions at the same time: in a
\* hot-swap and in a recovery alike, the session it was using is stopped
\* before the replacement session is started.
C38_OneStartedSession == ~(call.render.started /\ call.new_render.started)

\* the error arm has started the replacement on the endpoint of the session
\* whose write failed, which is still started and held
C38_RecoveryOverlap ==
    /\ call.pc = "assign"
    /\ call.error_count = 1
    /\ call.render = Session(call.current_device_id, TRUE)
    /\ call.new_render = Session(call.current_device_id, TRUE)

(***************************************************************************)
(* C39 and C40: the blocks the mic render worker takes, under SpecMicPath. *)
(***************************************************************************)
\* C39: every block the consumer converts or writes is handled with the
\* capture format of the session that captured its samples, also when a
\* hot-swap or a recovery publishes another format while samples of the
\* session before are in the ring.
C39_BlockInItsFormat ==
    \A i \in 1..Len(call.taken.block) :
        ChannelsOf(call.taken.block[i]) = call.taken.cf.channels

\* the capture worker has switched to an endpoint of two channels and
\* published its format, nothing having failed; the block taken since was
\* captured with one channel and is handled as two
C39_StaleSamples ==
    /\ faults = 0
    /\ call.capture.swap = "switched"
    /\ call.capture_format = WithChannels(2)
    /\ call.taken.block # <<>>
    /\ call.taken.cf = WithChannels(2)
    /\ \A i \in 1..Len(call.taken.block) : ChannelsOf(call.taken.block[i]) = 1

\* C40: every block the consumer takes from the ring starts on a frame
\* boundary of the captured stream: the count of the samples taken before it
\* (all that the ring accepted before it) is a multiple of the capture channel
\* count, also after an overflow that accepted part of a block and after a
\* read cut to the scratch buffer.
C40_BlockOnFrameBoundary ==
    call.taken.block # <<>> =>
        call.taken.before % ChannelsOf(call.taken.block[1]) = 0

\* C40's case: the endpoints have two channels, nothing has failed, and the
\* block taken begins with the second sample of a frame's place in the
\* stream: an odd count of samples was taken before it
C40_SplitFrame ==
    /\ faults = 0
    /\ call.capture_fmt = WithChannels(2)
    /\ call.taken.block # <<>>
    /\ ChannelsOf(call.taken.block[1]) = 2
    /\ call.taken.before = 1
====
